---------------------------- MODULE Spec2Model ----------------------------
(***************************************************************************)
(* A model of indra_db: the curation client (client/principal/curation.py),*)
(* the raw-statement distillation engine (util/distill_statements.py), the *)
(* dump pipeline exercised by tests/test_dump_manager.py, the preassembly  *)
(* submitter (preassembly/preassembly_submitter.py) and the knowledgebase  *)
(* managers (managers/knowledgebase_manager.py).                           *)
(*                                                                         *)
(* Each component has its own specification over the module's variables:   *)
(*   SpecCuration  submit_curation and the database's answer to the insert *)
(*   SpecFilter    get_filtered_rdg_stmts and get_filtered_db_stmts applied *)
(*                 to the raw statements of a database                     *)
(*   SpecDelete    delete_raw_statements_by_id, one deletion at a time     *)
(*   SpecDistill   distill_stmts on a database with links and agents       *)
(*   SpecDump      dump(db, ro), stage by stage                            *)
(*   SpecDumpList  list_dumps and get_latest_dump_s3_path on a dump root   *)
(*   SpecGrounding get_grounding_curations on a table of curations         *)
(*   SpecJobArgs   the generator PreassemblySubmitter._iter_job_args makes  *)
(*   SpecTas       TasManager._get_statements on the statements of a file  *)
(*   SpecKb        KnowledgebaseManager.upload run by two processes        *)
(* The variables of the other components keep their initial value there.   *)
(***************************************************************************)
EXTENDS Integers, Sequences, FiniteSets, TLC

VARIABLES
    PaStatements,   \* the mk_hash values of the pa_statements table
    Curation,       \* the rows of the curation table
    cur_last,       \* the last submit_curation call: its input and outcome
    RawStatements,  \* the rows of the raw_statements table
    RawAgents,      \* the rows of the raw_agents table
    RawUniqueLinks, \* the rows of the raw_unique_links table
    set_pop,        \* what set.pop() returns for each set of duplicates
    flt,            \* the calls of the two filters made on one argument
    distill,        \* the call of distill_stmts: arguments, results, position
    del_call,       \* the call of delete_raw_statements_by_id and its position
    s3,             \* the stage markers under each date stamp of the dump root
    principal,      \* the schemas of the principal database
    ro,             \* the active tables of the read-only database
    lambda_env,     \* the settings of the serverless environment
    call_records,   \* the environment-configuration calls made, in order
    dump,           \* the call of dump(db, ro) and its position
    dump_query,     \* the call of list_dumps or get_latest_dump_s3_path
    grounding,      \* the call of get_grounding_curations and the rows it reads
    job_args,       \* the generator made by PreassemblySubmitter._iter_job_args
    tas,            \* the call of TasManager._get_statements and its input
    DbInfo,         \* the rows of the db_info table
    kb              \* the uploads of the knowledgebase managers, per process

curVars == <<PaStatements, Curation, cur_last>>
dbVars == <<RawStatements, RawAgents, RawUniqueLinks>>
fltVars == <<set_pop, flt>>
distVars == <<distill, del_call>>
dumpVars == <<s3, principal, ro, lambda_env, call_records, dump>>
callVars == <<dump_query>>
clientVars == <<grounding, job_args, tas>>
kbVars == <<DbInfo, kb>>
vars == <<curVars, dbVars, fltVars, distVars, dumpVars, callVars, clientVars,
          kbVars>>

-----------------------------------------------------------------------------
(* Bounds of the curation component.                                       *)

\* Hash values run over {-MaxHash, 0, MaxHash}: INDRA hashes are signed,
\* and MaxHash has two decimal digits.
MaxHash == 10
\* An integrity error's message has at most MaxLines lines.
MaxLines == 2
\* The curation table holds at most MaxRows rows.
MaxRows == 1

HashVals == {-MaxHash, 0, MaxHash}
Tags == {"grounding", "wrong_relation"}

-----------------------------------------------------------------------------
(* Strings.  A string is a sequence of tokens; the tokens are the literal  *)
(* pieces the regular expression of submit_curation tells apart, decimal   *)
(* digits, the minus sign and the line break.                              *)

DigitChars == <<"0", "1", "2", "3", "4", "5", "6", "7", "8", "9">>
IsDigit(c) == \E i \in 1..Len(DigitChars) : DigitChars[i] = c
DigitVal(c) == (CHOOSE i \in 1..Len(DigitChars) : DigitChars[i] = c) - 1

\* str(n) of a natural number: its decimal digits.
RECURSIVE NatStr(_)
NatStr(n) ==
    IF n < Len(DigitChars) THEN <<DigitChars[n + 1]>>
    ELSE NatStr(n \div Len(DigitChars)) \o <<DigitChars[(n % Len(DigitChars)) + 1]>>

\* str(n) of an integer, as the database prints a bigint key value.
IntStr(n) == IF n < 0 THEN <<"-">> \o NatStr(-n) ELSE NatStr(n)

\* int(s) of a string of decimal digits (the only strings the pattern's
\* group (\d+) can capture).
RECURSIVE int(_)
int(s) ==
    IF Len(s) = 0 THEN 0
    ELSE int(SubSeq(s, 1, Len(s) - 1)) * Len(DigitChars) + DigitVal(s[Len(s)])

\* str.splitlines(): the pieces between line breaks; a trailing line break
\* opens no further line, and the empty string has no line.
RECURSIVE splitlines(_)
splitlines(s) ==
    IF Len(s) = 0 THEN <<>>
    ELSE IF \E i \in 1..Len(s) : s[i] = "\n"
         THEN LET i == CHOOSE k \in 1..Len(s) :
                          s[k] = "\n" /\ \A j \in 1..(k - 1) : s[j] # "\n"
              IN <<SubSeq(s, 1, i - 1)>> \o splitlines(SubSeq(s, i + 1, Len(s)))
         ELSE <<s>>

\* "\n".join(lines)
RECURSIVE JoinLines(_)
JoinLines(lines) ==
    IF Len(lines) = 0 THEN <<>>
    ELSE IF Len(lines) = 1 THEN lines[1]
    ELSE lines[1] \o <<"\n">> \o JoinLines(Tail(lines))


-----------------------------------------------------------------------------
(* The curation client: client/principal/curation.py.                      *)

\* re.match("DETAIL: .*?\(pa_hash\)=\((\d+)\).*?not present.*?pa.*?", line):
\* the positions k of a "(pa_hash)=(" from which the rest of the pattern
\* matches.  \d+ is one or more digits and must be followed by ")", so the
\* digits run to the first token that is no digit; "not present" and then
\* "pa" must follow somewhere later on the line.
DigitsEnd(line, k) ==
    CHOOSE e \in k..Len(line) :
        /\ \A j \in (k + 1)..e : IsDigit(line[j])
        /\ (e = Len(line) \/ ~IsDigit(line[e + 1]))

KeyMatches(line) ==
    {k \in 2..Len(line) :
        /\ line[k] = "(pa_hash)=("
        /\ LET e == DigitsEnd(line, k)
           IN /\ e > k
              /\ e < Len(line)
              /\ line[e + 1] = ")"
              /\ \E p \in (e + 2)..Len(line) :
                    /\ line[p] = "not present"
                    /\ \E q \in (p + 1)..Len(line) : line[q] = "pa"}

\* The match object: matched, and groups()[0], the digits captured.  The
\* leading .*? is lazy, so the leftmost "(pa_hash)=(" that lets the whole
\* pattern match is the one captured.
re_match(line) ==
    IF Len(line) = 0 \/ line[1] # "DETAIL: " \/ KeyMatches(line) = {}
    THEN [matched |-> FALSE, group |-> <<>>]
    ELSE LET k == CHOOSE x \in KeyMatches(line) :
                      \A y \in KeyMatches(line) : x <= y
         IN [matched |-> TRUE,
             group |-> SubSeq(line, k + 1, DigitsEnd(line, k))]

\* The lines an integrity error of the database can be made of.
HeaderLine == <<"(IntegrityError) insert or update violates constraint">>
FkDetailLine(h) ==
    <<"DETAIL: ", " Key ", "(pa_hash)=(">> \o IntStr(h)
        \o <<")", " is ", "not present", " in table ", "pa", "_statements.">>
UniqueDetailLine(h) ==
    <<"DETAIL: ", " Key ", "(pa_hash)=(">> \o IntStr(h)
        \o <<")", " already exists.">>
FailingRowLine == <<"DETAIL: ", " Failing row contains ", "(", "1", ")">>

\* The message of the foreign-key violation the database raises for a
\* pa_hash that is no mk_hash of pa_statements.
FkViolationMsg(h) == JoinLines(<<HeaderLine, FkDetailLine(h)>>) \o <<"\n">>

\* Messages of integrity errors of any shape, of 1..MaxLines lines.
LineKinds ==
    {HeaderLine, FailingRowLine} \cup {FkDetailLine(h) : h \in HashVals}
        \cup {UniqueDetailLine(0)}

RECURSIVE LineSeqs(_)
LineSeqs(n) ==
    IF n = 0 THEN {<<>>}
    ELSE LineSeqs(n - 1)
            \cup {Append(ls, l) : ls \in {x \in LineSeqs(n - 1) : Len(x) = n - 1},
                                  l \in LineKinds}

IntegrityMessages == {JoinLines(ls) : ls \in LineSeqs(MaxLines) \ {<<>>}}

\* db.insert(db.Curation, **inp): the row's new id, or the IntegrityError
\* the database raises.  The foreign key of curation.pa_hash on
\* pa_statements.mk_hash is checked by the database; any other constraint
\* of the table may be violated too, with a message of its own.
db_insert(hash_val) ==
    (IF hash_val \in PaStatements
     THEN {[ok |-> TRUE, msg |-> <<>>]}
     ELSE {[ok |-> FALSE, msg |-> FkViolationMsg(hash_val)]})
    \cup {[ok |-> FALSE, msg |-> m] : m \in IntegrityMessages}

\* The except clause of submit_curation: what is raised for the message
\* e.args[0] of the IntegrityError.
HandleIntegrityError(hash_val, msg) ==
    LET lines == splitlines(msg)
    IN IF Len(lines) < 2
       THEN [raised |-> "IndexError", h |-> <<>>]
       ELSE LET m == re_match(lines[2])
            IN IF ~m.matched
               THEN [raised |-> "IntegrityError", h |-> <<>>]
               ELSE IF int(m.group) # hash_val
                    THEN [raised |-> "AssertionError", h |-> <<>>]
                    ELSE [raised |-> "BadHashError", h |-> m.group]

submit_curation(hash_val, tag) ==
    \E res \in db_insert(hash_val) :
        LET inp == [hash_val |-> hash_val, tag |-> tag]
            dbid == Cardinality(Curation) + 1
        IN /\ Cardinality(Curation) < MaxRows
           /\ IF res.ok
              THEN /\ Curation' = Curation \cup
                          {[id |-> dbid, pa_hash |-> hash_val, tag |-> tag]}
                   /\ cur_last' = [op |-> "submit_curation", inp |-> inp,
                                   db_error |-> FALSE, db_msg |-> <<>>,
                                   raised |-> "none", h |-> <<>>,
                                   dbid |-> dbid, before |-> Curation]
              ELSE LET out == HandleIntegrityError(hash_val, res.msg)
                   IN /\ Curation' = Curation
                      /\ cur_last' = [op |-> "submit_curation", inp |-> inp,
                                      db_error |-> TRUE, db_msg |-> res.msg,
                                      raised |-> out.raised, h |-> out.h,
                                      dbid |-> 0, before |-> Curation]
           /\ UNCHANGED PaStatements


-----------------------------------------------------------------------------
(* The distillation engine: util/distill_statements.py.                    *)

\* Raw statement ids are 1..MaxSid.
MaxSid == 3
\* The number of distinct statement-and-evidence hashes.
NumHashes == 2

SIDs == 1..MaxSid
HashNames == <<"h1", "h2", "h3", "h4">>
StmtHashes == {HashNames[i] : i \in 1..NumHashes}

\* Index(seq, x) is list.index(x), counted from 1; 0 when x is not in seq
\* (where list.index raises ValueError).
Index(seq, x) ==
    IF \E i \in 1..Len(seq) : seq[i] = x
    THEN CHOOSE i \in 1..Len(seq) : seq[i] = x /\ \A j \in 1..(i - 1) : seq[j] # x
    ELSE 0

\* Versions of readers, and preference: later in the list is better.
reader_names == <<"sparser", "reach">>
reader_versions ==
    [sparser |-> <<"sept14-linux\n", "sept14-linux", "June2018-linux",
                   "October2018-linux">>,
     reach |-> <<"61059a-biores-e9ee36", "1.3.3-61059a-biores-">>]

\* Sources of fulltext content, in order of priority.
text_content_sources == <<"pubmed", "elsevier", "manuscripts", "pmc_oa">>

\* The text_content and reading tables the raw statements refer to: text
\* ref tr1 has two pubmed contents, a manuscripts and a pmc_oa content, read
\* by two versions of reach and by sparser; tr2 has one content.
TextContent ==
    {[id |-> "tc1", text_ref_id |-> "tr1", source |-> "pubmed"],
     [id |-> "tc2", text_ref_id |-> "tr1", source |-> "pmc_oa"],
     [id |-> "tc3", text_ref_id |-> "tr1", source |-> "pubmed"],
     [id |-> "tc4", text_ref_id |-> "tr2", source |-> "elsevier"],
     [id |-> "tc5", text_ref_id |-> "tr1", source |-> "manuscripts"]}

Reading ==
    <<[id |-> "r1", text_content_id |-> "tc1",
       reader_version |-> "61059a-biores-e9ee36"],
      [id |-> "r2", text_content_id |-> "tc1",
       reader_version |-> "1.3.3-61059a-biores-"],
      [id |-> "r3", text_content_id |-> "tc2",
       reader_version |-> "61059a-biores-e9ee36"],
      [id |-> "r4", text_content_id |-> "tc3",
       reader_version |-> "1.3.3-61059a-biores-"],
      [id |-> "r5", text_content_id |-> "tc4",
       reader_version |-> "sept14-linux\n"],
      [id |-> "r6", text_content_id |-> "tc5",
       reader_version |-> "October2018-linux"]>>

ReadingIds == {Reading[i].id : i \in 1..Len(Reading)}
ReadingOf(rid) == CHOOSE r \in {Reading[i] : i \in 1..Len(Reading)} : r.id = rid
ContentOf(tcid) == CHOOSE tc \in TextContent : tc.id = tcid

\* The k-th kind of raw statement: read in reading k \div NumHashes + 1, or
\* (past the readings) taken from a knowledge base, with hash k % NumHashes.
StmtKind(k) ==
    LET r == (k \div NumHashes) + 1
        h == HashNames[(k % NumHashes) + 1]
    IN IF r <= Len(Reading)
       THEN [reading_id |-> Reading[r].id, db_info_id |-> "NULL", mk_hash |-> h]
       ELSE [reading_id |-> "NULL", db_info_id |-> "db1", mk_hash |-> h]

NumKinds == (Len(Reading) + 1) * NumHashes

\* The hashes of the kinds g[1], g[2], ... appear in the order of their
\* names: a hash is used after every hash named before it.
HashesInOrder(g, n) ==
    \A i \in 1..n : \A h \in 0..((g[i] % NumHashes) - 1) :
        \E j \in 1..(i - 1) : g[j] % NumHashes = h

\* The raw_statements tables the model starts from: n rows with ids 1..n.
\* The code never orders ids and compares hashes for equality only, so the
\* tables are drawn up to a renaming of the ids (the kinds do not decrease
\* along the ids) and of the hashes.
Corpora ==
    UNION {
        {{[id |-> i, reading_id |-> StmtKind(f[i]).reading_id,
           db_info_id |-> StmtKind(f[i]).db_info_id,
           mk_hash |-> StmtKind(f[i]).mk_hash] : i \in 1..n} :
            f \in {g \in [1..n -> 0..(NumKinds - 1)] :
                      /\ \A i \in 1..(n - 1) : g[i] <= g[i + 1]
                      /\ HashesInOrder(g, n)}} :
        n \in 0..MaxSid}

-----------------------------------------------------------------------------
(* NestedDict.  A nested dict whose deepest values are sets is the set of  *)
(* its entries [path, tpl]: tpl is a member of the set found under the     *)
(* keys path[1], path[2], ...                                              *)

Keys(nd) == {e.path[1] : e \in {x \in nd : Len(x.path) > 0}}
Sub(nd, k) ==
    {[path |-> Tail(e.path), tpl |-> e.tpl] :
        e \in {x \in nd : Len(x.path) > 0 /\ x.path[1] = k}}
Del(nd, k) == {e \in nd : e.path[1] # k}
get_leaves(nd) == {e.tpl : e \in nd}

\* NestedDict.gets(key): the values under key at any depth.
RECURSIVE gets(_, _)
gets(nd, key) ==
    IF Keys(nd) = {} THEN {}
    ELSE (IF key \in Keys(nd) THEN {Sub(nd, key)} ELSE {})
            \cup UNION {gets(Sub(nd, k), key) : k \in Keys(nd)}

\* The reader whose version list holds rv: the first in the dict's order.
ReaderOf(rv) ==
    LET hits == {i \in 1..Len(reader_names) :
                    Index(reader_versions[reader_names[i]], rv) > 0}
    IN IF hits = {} THEN "not recognized"
       ELSE reader_names[CHOOSE i \in hits : \A j \in hits : i <= j]

\* get_reading_stmt_dict(db, get_full_stmts=False): the raw statements that
\* come from a reading, keyed by text ref, source, content, reader, reader
\* version, reading and hash; each tuple is (sid, None), here the sid.
get_reading_stmt_dict(raw_statements) ==
    LET rows == {s \in raw_statements : s.reading_id # "NULL"}
        entry(s) ==
            LET rd == ReadingOf(s.reading_id)
                tc == ContentOf(rd.text_content_id)
            IN [path |-> <<tc.text_ref_id, tc.source, tc.id,
                           ReaderOf(rd.reader_version), rd.reader_version,
                           rd.id, s.mk_hash>>,
                tpl |-> s.id]
    IN IF \E s \in rows :
            ReaderOf(ReadingOf(s.reading_id).reader_version) = "not recognized"
       THEN [error |-> "Exception", stmt_nd |-> {}]
       ELSE [error |-> "none", stmt_nd |-> {entry(s) : s \in rows}]

\* A better_func that prefers the sources earlier in the list.
better_func_reversed(element) == 0 - Index(text_content_sources, element)

\* better_func(element) of get_filtered_rdg_stmts.
better_func(element) == Index(text_content_sources, element)

\* "Filter out unneeded fulltext": while the text ref has more than one
\* source, the worst one is deleted and its leaves are bettered duplicates.
\* min() raises ValueError when a source is not in text_content_sources.
RECURSIVE FilterFulltext(_, _)
FilterFulltext(src_dict, some_bettered_duplicate_tpls) ==
    IF Cardinality(Keys(src_dict)) > 1
    THEN IF \E k \in Keys(src_dict) : better_func(k) = 0
         THEN [error |-> "ValueError", src_dict |-> src_dict,
               bettered |-> some_bettered_duplicate_tpls]
         ELSE LET worst_src == CHOOSE k \in Keys(src_dict) :
                        \A j \in Keys(src_dict) : better_func(k) <= better_func(j)
              IN FilterFulltext(Del(src_dict, worst_src),
                                some_bettered_duplicate_tpls
                                    \cup get_leaves(Sub(src_dict, worst_src)))
    ELSE [error |-> "none", src_dict |-> src_dict,
          bettered |-> some_bettered_duplicate_tpls]

\* A best_rv that is the version earliest in the list (min for max).
BestRv_min(rv_dict, rv_list) ==
    CHOOSE rv \in Keys(rv_dict) :
        \A other \in Keys(rv_dict) : Index(rv_list, rv) <= Index(rv_list, other)

\* best_rv = max(rv_dict, key=lambda x: rv_list.index(x))
BestRv(rv_dict, rv_list) ==
    CHOOSE rv \in Keys(rv_dict) :
        \A other \in Keys(rv_dict) : Index(rv_list, other) <= Index(rv_list, rv)

\* A turn of the loop that keeps every tuple of a set none of which is
\* linked (stmt_tpls |= stmt_tpl_set for stmt_tpls.add(stmt_tpl_set.pop())).
DetectOne_keep_all(stmt_tpl_set, linked_sids, pop) ==
    LET prefed_tpls == {tpl \in stmt_tpl_set : tpl \in linked_sids}
    IN IF prefed_tpls = {}
       THEN [error |-> "none", stmt_tpls |-> stmt_tpl_set, dups |-> {}]
       ELSE IF Cardinality(prefed_tpls) = 1
       THEN [error |-> "none", stmt_tpls |-> prefed_tpls,
             dups |-> stmt_tpl_set \ prefed_tpls]
       ELSE [error |-> "AssertionError", stmt_tpls |-> {}, dups |-> {}]

\* A turn of the loop that, of several linked tuples, keeps one and records
\* the others as duplicates instead of raising.
DetectOne_pick_linked(stmt_tpl_set, linked_sids, pop) ==
    LET prefed_tpls == {tpl \in stmt_tpl_set : tpl \in linked_sids}
        kept == IF prefed_tpls = {} THEN pop[stmt_tpl_set]
                ELSE CHOOSE tpl \in prefed_tpls : TRUE
    IN IF Cardinality(stmt_tpl_set) = 1
       THEN [error |-> "none", stmt_tpls |-> stmt_tpl_set, dups |-> {}]
       ELSE [error |-> "none", stmt_tpls |-> {kept},
             dups |-> stmt_tpl_set \ {kept}]

\* One turn of the loop of _detect_exact_duplicates: a set of tuples that
\* share a hash in one reading.  pop[s] is the tuple s.pop() returns.
DetectOne(stmt_tpl_set, linked_sids, pop) ==
    IF Cardinality(stmt_tpl_set) = 1
    THEN [error |-> "none", stmt_tpls |-> stmt_tpl_set, dups |-> {}]
    ELSE LET prefed_tpls == {tpl \in stmt_tpl_set : tpl \in linked_sids}
         IN IF prefed_tpls = {}
            THEN [error |-> "none", stmt_tpls |-> {pop[stmt_tpl_set]},
                  dups |-> stmt_tpl_set \ {pop[stmt_tpl_set]}]
            ELSE IF Cardinality(prefed_tpls) = 1
            THEN [error |-> "none", stmt_tpls |-> prefed_tpls,
                  dups |-> stmt_tpl_set \ prefed_tpls]
            ELSE [error |-> "AssertionError", stmt_tpls |-> {}, dups |-> {}]

\* The results of a set of calls as one: an error if any call raised.
Combine(results) ==
    [error |-> IF \A r \in results : r.error = "none" THEN "none"
               ELSE (CHOOSE r \in results : r.error # "none").error,
     stmt_tpls |-> UNION {r.stmt_tpls : r \in results},
     dups |-> UNION {r.dups : r \in results}]

detect_exact_duplicates(stmt_set_itr, linked_sids, pop) ==
    Combine({DetectOne(stmt_tpl_set, linked_sids, pop) :
                stmt_tpl_set \in stmt_set_itr})

\* A body that looks at the best version and records nothing of the others.
FilterVersions_best_only(rv_dict, rv_list, linked_sids, ignore_duplicates, pop) ==
    LET best_rv == BestRv(rv_dict, rv_list)
        r_dicts == Sub(rv_dict, best_rv)
        stmt_set_itr ==
            UNION {{get_leaves(Sub(Sub(r_dicts, rid), h)) :
                        h \in Keys(Sub(r_dicts, rid))} : rid \in Keys(r_dicts)}
        det == IF ignore_duplicates
               THEN [error |-> "none", stmt_tpls |-> UNION stmt_set_itr,
                     dups |-> {}]
               ELSE detect_exact_duplicates(stmt_set_itr, linked_sids, pop)
    IN [error |-> det.error, stmt_tpls |-> det.stmt_tpls, dups |-> det.dups,
        bettered |-> {}]

\* The body of "for rv_dict in src_dict.gets(reader)".
FilterVersions(rv_dict, rv_list, linked_sids, ignore_duplicates, pop) ==
    LET best_rv == BestRv(rv_dict, rv_list)
        bettered == UNION {get_leaves(Sub(rv_dict, rv)) :
                              rv \in Keys(rv_dict) \ {best_rv}}
        r_dicts == Sub(rv_dict, best_rv)
        stmt_set_itr ==
            UNION {{get_leaves(Sub(Sub(r_dicts, rid), h)) :
                        h \in Keys(Sub(r_dicts, rid))} : rid \in Keys(r_dicts)}
        det == IF ignore_duplicates
               THEN [error |-> "none", stmt_tpls |-> UNION stmt_set_itr,
                     dups |-> {}]
               ELSE detect_exact_duplicates(stmt_set_itr, linked_sids, pop)
    IN [error |-> det.error, stmt_tpls |-> det.stmt_tpls, dups |-> det.dups,
        bettered |-> bettered]

\* The body of "for trid, src_dict in stmt_nd.items()".
FilterTextRef(src_dict, linked_sids, ignore_duplicates, pop) ==
    LET ff == FilterFulltext(src_dict, {})
        per == UNION {{FilterVersions(rv_dict, reader_versions[reader_names[i]],
                                      linked_sids, ignore_duplicates, pop) :
                          rv_dict \in gets(ff.src_dict, reader_names[i])} :
                      i \in 1..Len(reader_names)}
    IN IF ff.error # "none"
       THEN [error |-> ff.error, stmt_tpls |-> {}, dups |-> {}, bettered |-> {}]
       ELSE [error |-> Combine(per).error,
             stmt_tpls |-> Combine(per).stmt_tpls,
             dups |-> Combine(per).dups,
             bettered |-> ff.bettered \cup UNION {r.bettered : r \in per}]

\* get_filtered_rdg_stmts(stmt_nd, get_full_stmts=False, linked_sids,
\* ignore_duplicates): the ids kept, the exact duplicates and the bettered
\* duplicates, or the error raised.
get_filtered_rdg_stmts(stmt_nd, linked_sids, ignore_duplicates, pop) ==
    LET per == {FilterTextRef(Sub(stmt_nd, trid), linked_sids,
                              ignore_duplicates, pop) : trid \in Keys(stmt_nd)}
    IN IF Combine(per).error # "none"
       THEN [error |-> Combine(per).error, stmts |-> {}, duplicate_sids |-> {},
             bettered_duplicate_sids |-> {}]
       ELSE [error |-> "none",
             stmts |-> Combine(per).stmt_tpls,
             duplicate_sids |-> Combine(per).dups,
             bettered_duplicate_sids |-> UNION {r.bettered : r \in per}]

\* _choose_unique(not_duplicates, get_full_stmts=False, stmt_tpl_grp): the
\* id kept of a group of knowledge-base rows that share mk_hash, and the
\* duplicate ids.  The group is the set of the ids of its rows.
choose_unique(not_duplicates, stmt_tpl_grp, pop) ==
    IF Cardinality(stmt_tpl_grp) = 1
    THEN [error |-> "none", ret_stmt |-> stmt_tpl_grp, duplicate_ids |-> {}]
    ELSE LET preferred_tpls == {tpl \in stmt_tpl_grp : tpl \in not_duplicates}
         IN IF preferred_tpls = {}
            THEN [error |-> "none", ret_stmt |-> {pop[stmt_tpl_grp]},
                  duplicate_ids |->
                      {tpl \in stmt_tpl_grp \ {pop[stmt_tpl_grp]} :
                          tpl \notin not_duplicates}]
            ELSE IF Cardinality(preferred_tpls) = 1
            THEN [error |-> "none", ret_stmt |-> preferred_tpls,
                  duplicate_ids |->
                      {tpl \in stmt_tpl_grp : tpl \notin not_duplicates}]
            ELSE [error |-> "AssertionError", ret_stmt |-> {},
                  duplicate_ids |-> {}]

\* The groups of get_filtered_db_stmts: the rows with a db_info_id, ordered
\* by mk_hash and grouped by it, so one group for each hash.
stmt_groups(raw_statements) ==
    LET rows == {s \in raw_statements : s.db_info_id # "NULL"}
    IN {{s.id : s \in {x \in rows : x.mk_hash = h}} :
            h \in {s.mk_hash : s \in rows}}

\* get_filtered_db_stmts(db, get_full_stmts=False, clauses=None,
\* not_duplicates, num_procs).  With num_procs = 1 the groups are folded in
\* a loop; otherwise pool.map collects the results and zip(*res) unpacks
\* them into two tuples, which raises ValueError when there is no group.
get_filtered_db_stmts(raw_statements, not_duplicates, num_procs, pop) ==
    LET res == {choose_unique(not_duplicates, grp, pop) :
                    grp \in stmt_groups(raw_statements)}
        ok == [error |-> "none",
               stmts |-> UNION {r.ret_stmt : r \in res},
               duplicate_ids |-> UNION {r.duplicate_ids : r \in res}]
        failed(err) == [error |-> err, stmts |-> {}, duplicate_ids |-> {}]
    IN IF \E r \in res : r.error # "none" THEN failed("AssertionError")
       ELSE IF num_procs = 1 THEN ok
       ELSE IF res = {} THEN failed("ValueError")
       ELSE ok

-----------------------------------------------------------------------------
(* The dump pipeline: managers/dump_manager.py, as tests/test_dump_manager *)
(* exercises it.  Date stamps are numbered in their order.                 *)

\* The date stamps of the dump root; the dump that runs has the last one.
MaxDate == 3
DateStamps == 1..MaxDate

\* The registry of dumpers, by their names.
DerivedStages ==
    {"sif", "belief", "statement-hash-to-mesh-id", "full-pa-statements"}
StageNames == {"start", "readonly", "end"} \cup DerivedStages

\* The tables of the read-only database: those marked _temp serve its
\* construction only.
RoTempTables == {"pa_stmt_src"}
RoFinalTables == {"fast_raw_pa_link", "source_meta"}
RoTables == RoTempTables \cup RoFinalTables

\* str(db.url) of the principal database, and the name of the override.
PrincipalUrl == "postgresql://principal/indradb"
OverrideName == "INDRAROOVERRIDE"

\* The principal database with its own schema only, and the records of a
\* dump that has not begun.
PrincipalIdle == [schemas |-> {"public"}, readonly_tables |-> {}]
NoDumpCall ==
    [pc |-> "idle", date_stamp |-> MaxDate, promoted |-> FALSE,
     torn_down |-> FALSE, ro_before |-> {}]

\* list_dumps and get_latest_dump_s3_path not called.  None is held as
\* "None" where an argument is None, True or False, and as 0 where a date
\* stamp is expected.
NoDumpQuery ==
    [fn |-> "none", started |-> "None", ended |-> "None", stage |-> "start",
     dumps |-> <<>>, latest |-> 0]

\* The functions that only read: none has been called.
CallsIdle == dump_query = NoDumpQuery

\* get_grounding_curations, _iter_job_args and _get_statements before they
\* are called, and the knowledgebase managers before any upload.
NoGroundingCall == [pc |-> "idle", curs |-> <<>>, groundings |-> {}]
NoJobArgs ==
    [pc |-> "idle", type_list |-> <<>>, args |-> <<>>, yielded |-> <<>>,
     invalid_types |-> {}]
NoTasCall == [pc |-> "idle", statements |-> <<>>, error |-> "None",
              returned |-> {}]
KbProcs == {"p1", "p2"}
NoUpload == [pc |-> "idle", name |-> "None", dbid |-> 0, uploads |-> 0]
NoUploads == [serialized |-> TRUE, proc |-> [p \in KbProcs |-> NoUpload],
              stmts |-> {}]
ClientsIdle ==
    /\ grounding = NoGroundingCall
    /\ job_args = NoJobArgs
    /\ tas = NoTasCall
KbIdle ==
    /\ DbInfo = {}
    /\ kb = NoUploads

\* The variables of the dump pipeline while another component runs.
DumpIdle ==
    /\ s3 = [d \in DateStamps |-> {}]
    /\ principal = PrincipalIdle
    /\ ro = {}
    /\ lambda_env = {}
    /\ call_records = <<>>
    /\ dump = NoDumpCall
    /\ CallsIdle

-----------------------------------------------------------------------------
(* Initial values of the components, and the curation client: SpecCuration *)

NotRun == [error |-> "not run", stmts |-> {}, duplicate_ids |-> {}]
NoFilterCall ==
    [fn |-> "none", arg |-> {}, ignore_duplicates |-> FALSE,
     rdg |-> [error |-> "not run", stmts |-> {}, duplicate_sids |-> {},
              bettered_duplicate_sids |-> {}],
     db1 |-> NotRun, db4 |-> NotRun]

\* The three tables a deletion works on, as one value.
Tables ==
    [links |-> RawUniqueLinks, agents |-> RawAgents, statements |-> RawStatements]
NoTables == [links |-> {}, agents |-> {}, statements |-> {}]

\* remove is the string 'all', held as {"all"}, or the list of what to
\* delete.
RemoveKinds == {"links", "agents", "statements"}
RemoveAll == {"all"}

NoDeleteCall ==
    [pc |-> "idle", caller |-> "none", raw_sids |-> {}, remove_arg |-> RemoveAll,
     remove |-> {}, before |-> NoTables]
NoDistillCall ==
    [pc |-> "idle", handle_duplicates |-> "ignore", weed_evidence |-> TRUE,
     batch_size |-> 0, error |-> "none", linked_sids |-> {},
     stmts |-> {}, duplicate_sids |-> {}, bettered_duplicate_sids |-> {},
     todo |-> {}, pickled |-> {}, before |-> NoTables]

\* distill_stmts and delete_raw_statements_by_id not called.
NoDistillation == distill = NoDistillCall /\ del_call = NoDeleteCall

\* The variables of the distillation engine while another component runs.
DistillIdle ==
    /\ RawStatements = {}
    /\ RawAgents = {}
    /\ RawUniqueLinks = {}
    /\ set_pop = <<>>
    /\ flt = NoFilterCall
    /\ NoDistillation

NoCurationCall ==
    [op |-> "none", inp |-> [hash_val |-> 0, tag |-> "grounding"],
     db_error |-> FALSE, db_msg |-> <<>>, raised |-> "none", h |-> <<>>,
     dbid |-> 0, before |-> {}]

CurationIdle ==
    /\ PaStatements = {}
    /\ Curation = {}
    /\ cur_last = NoCurationCall

CurInit ==
    /\ DistillIdle
    /\ DumpIdle
    /\ ClientsIdle
    /\ KbIdle
    /\ PaStatements \in SUBSET HashVals
    /\ Curation = {}
    /\ cur_last = NoCurationCall

\* The curation client leaves the other components as they are.
CurFrame ==
    UNCHANGED <<dbVars, fltVars, distVars, dumpVars, callVars, clientVars, kbVars>>

CurNext ==
    /\ \E hash_val \in HashVals, tag \in Tags : submit_curation(hash_val, tag)
    /\ CurFrame

SpecCuration == CurInit /\ [][CurNext]_vars

-----------------------------------------------------------------------------
(* The two filters as functions of the database: SpecFilter.               *)

\* The sets of exact duplicates of a database: the ids that share a hash in
\* one reading, and the ids of knowledge-base rows that share mk_hash.
DuplicateSets(raw_statements) ==
    {g \in {{s.id : s \in {x \in raw_statements :
                              /\ x.reading_id = r.reading_id
                              /\ x.db_info_id = r.db_info_id
                              /\ x.mk_hash = r.mk_hash}} : r \in raw_statements} :
        Cardinality(g) > 1}

\* set.pop() returns an arbitrary member, the same one for the same set:
\* every way to choose is a value of set_pop.
PopChoices(sets) == {f \in [sets -> SIDs] : \A g \in sets : f[g] \in g}

FilterInit ==
    /\ CurationIdle
    /\ RawStatements \in Corpora
    /\ RawAgents = {}
    /\ RawUniqueLinks = {}
    /\ set_pop \in PopChoices(DuplicateSets(RawStatements))
    /\ flt = NoFilterCall
    /\ NoDistillation
    /\ DumpIdle
    /\ ClientsIdle
    /\ KbIdle

\* get_filtered_rdg_stmts(get_reading_stmt_dict(db), False, linked_sids,
\* ignore_duplicates).  The filters are functions of the database and of
\* their arguments, so a behaviour holds one series of calls: one call of
\* this filter, or the calls of the other on one not_duplicates.
call_get_filtered_rdg_stmts(linked_sids, ignore_duplicates) ==
    /\ flt.fn = "none"
    /\ get_reading_stmt_dict(RawStatements).error = "none"
    /\ flt' = [NoFilterCall EXCEPT
                 !.fn = "get_filtered_rdg_stmts",
                 !.arg = linked_sids,
                 !.ignore_duplicates = ignore_duplicates,
                 !.rdg = get_filtered_rdg_stmts(
                             get_reading_stmt_dict(RawStatements).stmt_nd,
                             linked_sids, ignore_duplicates, set_pop)]
    /\ UNCHANGED <<dbVars, set_pop>>

\* get_filtered_db_stmts(db, not_duplicates=not_duplicates,
\* num_procs=num_procs), after the calls made with the same not_duplicates.
call_get_filtered_db_stmts(not_duplicates, num_procs) ==
    LET res == get_filtered_db_stmts(RawStatements, not_duplicates, num_procs,
                                     set_pop)
        old == [flt EXCEPT !.fn = "get_filtered_db_stmts",
                           !.arg = not_duplicates]
    IN /\ \/ flt.fn = "none"
          \/ flt.fn = "get_filtered_db_stmts" /\ flt.arg = not_duplicates
       /\ (IF num_procs = 1 THEN flt.db1 ELSE flt.db4) = NotRun
       /\ flt' = IF num_procs = 1 THEN [old EXCEPT !.db1 = res]
                 ELSE [old EXCEPT !.db4 = res]
       /\ UNCHANGED <<dbVars, set_pop>>

NumProcs == {1, 4}

\* The filters leave the other components as they are.
FilterFrame ==
    UNCHANGED <<curVars, distVars, dumpVars, callVars, clientVars, kbVars>>

FilterNext ==
    \/ /\ \E linked_sids \in SUBSET SIDs, ignore_duplicates \in BOOLEAN :
             call_get_filtered_rdg_stmts(linked_sids, ignore_duplicates)
       /\ FilterFrame
    \/ /\ \E not_duplicates \in SUBSET SIDs, num_procs \in NumProcs :
             call_get_filtered_db_stmts(not_duplicates, num_procs)
       /\ FilterFrame

SpecFilter == FilterInit /\ [][FilterNext]_vars

-----------------------------------------------------------------------------
(* delete_raw_statements_by_id, one deletion at a time: SpecDelete.        *)

\* The rows of raw_unique_links and raw_agents that may refer to the rows
\* of raw_statements: a link to the preassembled statement of the row's
\* hash, and the row's first agent.
LinkRows(raw_statements) ==
    {[raw_stmt_id |-> s.id, pa_stmt_mk_hash |-> s.mk_hash] : s \in raw_statements}
AgentRows(raw_statements) ==
    {[stmt_id |-> s.id, ag_num |-> 0] : s \in raw_statements}

\* The values of remove.  A raw_statements row that a link or an agent refers to
\* cannot be deleted, so a list that names 'statements' names all three.
RemoveArgs ==
    {RemoveAll} \cup
    {r \in SUBSET RemoveKinds : "statements" \in r => r = RemoveKinds}

\* The entry of delete_raw_statements_by_id(db, raw_sids, remove=remove).
enter_delete(caller, raw_sids, remove) ==
    [pc |-> "links", caller |-> caller, raw_sids |-> raw_sids,
     remove_arg |-> remove,
     remove |-> IF remove = RemoveAll THEN RemoveKinds ELSE remove,
     before |-> Tables]

call_delete(raw_sids, remove) ==
    /\ del_call.pc = "idle"
    /\ del_call' = enter_delete("client", raw_sids, remove)
    /\ UNCHANGED <<dbVars, distill>>

\* A first step that deletes the statements and leaves the links.
delete_links_statements_first ==
    /\ del_call.pc = "links"
    /\ RawStatements' =
          {s \in RawStatements : s.id \notin del_call.raw_sids}
    /\ del_call' = [del_call EXCEPT !.pc = "agents"]
    /\ UNCHANGED <<RawUniqueLinks, RawAgents, distill>>

\* First, delete the evidence links.
delete_links ==
    /\ del_call.pc = "links"
    /\ RawUniqueLinks' =
          IF "links" \in del_call.remove
          THEN {l \in RawUniqueLinks : l.raw_stmt_id \notin del_call.raw_sids}
          ELSE RawUniqueLinks
    /\ del_call' = [del_call EXCEPT !.pc = "agents"]
    /\ UNCHANGED <<RawStatements, RawAgents, distill>>

\* Second, delete the agents, leaving every table as it is.
delete_agents_skipped ==
    /\ del_call.pc = "agents"
    /\ del_call' = [del_call EXCEPT !.pc = "statements"]
    /\ UNCHANGED <<RawStatements, RawAgents, RawUniqueLinks, distill>>

\* Second, delete the agents.
delete_agents ==
    /\ del_call.pc = "agents"
    /\ RawAgents' =
          IF "agents" \in del_call.remove
          THEN {a \in RawAgents : a.stmt_id \notin del_call.raw_sids}
          ELSE RawAgents
    /\ del_call' = [del_call EXCEPT !.pc = "statements"]
    /\ UNCHANGED <<RawStatements, RawUniqueLinks, distill>>

\* Now finally delete the statements, and return.
delete_statements ==
    /\ del_call.pc = "statements"
    /\ RawStatements' =
          IF "statements" \in del_call.remove
          THEN {s \in RawStatements : s.id \notin del_call.raw_sids}
          ELSE RawStatements
    /\ del_call' = [del_call EXCEPT !.pc = "done"]
    /\ UNCHANGED <<RawAgents, RawUniqueLinks, distill>>

\* Tables of rows that differ in their id only: a deletion reads nothing
\* else of a row.
DeleteCorpora ==
    {{[id |-> i, reading_id |-> StmtKind(0).reading_id,
       db_info_id |-> StmtKind(0).db_info_id,
       mk_hash |-> StmtKind(0).mk_hash] : i \in 1..n} : n \in 0..MaxSid}

DeleteInit ==
    /\ CurationIdle
    /\ RawStatements \in DeleteCorpora
    /\ RawAgents \in SUBSET AgentRows(RawStatements)
    /\ RawUniqueLinks \in SUBSET LinkRows(RawStatements)
    /\ set_pop = <<>>
    /\ flt = NoFilterCall
    /\ NoDistillation
    /\ DumpIdle
    /\ ClientsIdle
    /\ KbIdle

CallDelete ==
    \E raw_sids \in SUBSET SIDs, remove \in RemoveArgs :
        call_delete(raw_sids, remove)

\* The distillation engine leaves the other components as they are, and
\* calls neither filter on its own.
DistillFrame ==
    UNCHANGED <<curVars, fltVars, dumpVars, callVars, clientVars, kbVars>>

DeleteNext ==
    \/ CallDelete /\ DistillFrame
    \/ delete_links /\ DistillFrame
    \/ delete_agents /\ DistillFrame
    \/ delete_statements /\ DistillFrame

SpecDelete == DeleteInit /\ [][DeleteNext]_vars

-----------------------------------------------------------------------------
(* distill_stmts on a database with links and agents: SpecDistill.         *)

HandleDuplicates == {"ignore", "delete", "duplicate_ids.pkl"}
BatchSizes == {1, 1000}

Min(a, b) == IF a < b THEN a ELSE b

\* What "assert not linked_sids & duplicate_sids" of distill_stmts raises,
\* told apart from the assertion errors of the filters.
LinkedDuplicates == "AssertionError: linked_sids & duplicate_sids"

\* The middle of distill_stmts: the two filters and the assertion made
\* after each, with the kept, duplicate and bettered ids they give.
distill_filters(linked_sids, num_procs) ==
    LET nd == get_reading_stmt_dict(RawStatements)
        rdg == get_filtered_rdg_stmts(nd.stmt_nd, linked_sids, FALSE, set_pop)
        dbs == get_filtered_db_stmts(RawStatements, linked_sids, num_procs,
                                     set_pop)
        failed(e) == [error |-> e, stmts |-> {}, duplicate_sids |-> {},
                      bettered_duplicate_sids |-> {}]
    IN IF nd.error # "none" THEN failed(nd.error)
       ELSE IF rdg.error # "none" THEN failed(rdg.error)
       ELSE IF linked_sids \cap rdg.duplicate_sids # {}
       THEN failed(LinkedDuplicates)
       ELSE IF dbs.error # "none" THEN failed(dbs.error)
       ELSE IF linked_sids \cap (rdg.duplicate_sids \cup dbs.duplicate_ids) # {}
       THEN failed(LinkedDuplicates)
       ELSE [error |-> "none",
             stmts |-> rdg.stmts \cup dbs.stmts,
             duplicate_sids |-> rdg.duplicate_sids \cup dbs.duplicate_ids,
             bettered_duplicate_sids |-> rdg.bettered_duplicate_sids]

\* The ids that have a link, loaded unless handle_duplicates is 'ignore'.
load_linked_sids(handle_duplicates) ==
    IF handle_duplicates = "delete" \/ handle_duplicates # "ignore"
    THEN {l.raw_stmt_id : l \in RawUniqueLinks}
    ELSE {}

\* distill_stmts(db, num_procs=.., handle_duplicates=.., weed_evidence=..,
\* batch_size=..) up to the deletion of the exact duplicates: the linked
\* ids, the two filters and their assertions, and the weeding of links.
\* The call keeps batch_size for the loop over the batches, where it is
\* read.
distill_stmts(num_procs, handle_duplicates, weed_evidence, batch_size) ==
    /\ distill.pc = "idle"
    /\ \E linked_sids \in {load_linked_sids(handle_duplicates)} :
       \E out \in {distill_filters(linked_sids, num_procs)} :
           LET bad_link_sids == out.bettered_duplicate_sids \cap linked_sids
               deleting == out.duplicate_sids # {} /\ handle_duplicates = "delete"
               call == [NoDistillCall EXCEPT
                           !.handle_duplicates = handle_duplicates,
                           !.weed_evidence = weed_evidence,
                           !.linked_sids = linked_sids,
                           !.before = Tables]
           IN /\ IF out.error # "none"
                 THEN /\ distill' = [call EXCEPT !.pc = "raised", !.error = out.error]
                      /\ UNCHANGED dbVars
                 ELSE /\ RawUniqueLinks' =
                            IF bad_link_sids # {} /\ weed_evidence
                            THEN {l \in RawUniqueLinks :
                                     l.raw_stmt_id \notin bad_link_sids}
                            ELSE RawUniqueLinks
                      /\ distill' =
                            [call EXCEPT
                               !.pc = IF deleting THEN "deleting" ELSE "returned",
                               !.stmts = out.stmts,
                               !.duplicate_sids = out.duplicate_sids,
                               !.bettered_duplicate_sids = out.bettered_duplicate_sids,
                               !.batch_size = IF deleting THEN batch_size ELSE 0,
                               !.todo = IF deleting THEN out.duplicate_sids ELSE {},
                               !.pickled = IF handle_duplicates \notin {"delete", "ignore"}
                                           THEN out.duplicate_sids ELSE {}]
                      /\ UNCHANGED <<RawStatements, RawAgents>>
              /\ UNCHANGED del_call

\* A loop that deletes the bettered duplicates along with each batch.
distill_delete_batch_with_bettered ==
    /\ distill.pc = "deleting"
    /\ del_call.pc \in {"idle", "done"}
    /\ distill.todo # {}
    /\ \E dup_id_batch \in SUBSET distill.todo :
          /\ Cardinality(dup_id_batch) =
                Min(distill.batch_size, Cardinality(distill.todo))
          /\ del_call' = enter_delete("distill_stmts",
                                      dup_id_batch
                                         \cup distill.bettered_duplicate_sids,
                                      RemoveAll)
          /\ distill' = [distill EXCEPT !.todo = @ \ dup_id_batch]
    /\ UNCHANGED dbVars

\* for dup_id_batch in batch_iter(duplicate_sids, batch_size, set):
\*     delete_raw_statements_by_id(db, dup_id_batch)
\* The batches are cut from a set, so in no fixed order.
distill_delete_batch ==
    /\ distill.pc = "deleting"
    /\ del_call.pc \in {"idle", "done"}
    /\ distill.todo # {}
    /\ \E dup_id_batch \in SUBSET distill.todo :
          /\ Cardinality(dup_id_batch) =
                Min(distill.batch_size, Cardinality(distill.todo))
          /\ del_call' = enter_delete("distill_stmts", dup_id_batch, RemoveAll)
          /\ distill' = [distill EXCEPT !.todo = @ \ dup_id_batch]
    /\ UNCHANGED dbVars

\* return stmts, after the last batch.
distill_return ==
    /\ distill.pc = "deleting"
    /\ del_call.pc \in {"idle", "done"}
    /\ distill.todo = {}
    /\ distill' = [distill EXCEPT !.pc = "returned"]
    /\ UNCHANGED <<dbVars, del_call>>

\* The statements of one text ref read by two versions of one reader and
\* from two sources, and those of a knowledge base.
DistillReadings == {"r1", "r2", "r3"}
DistillCorpora ==
    {c \in Corpora : \A s \in c : s.reading_id \in DistillReadings \cup {"NULL"}}

DistillInit ==
    /\ CurationIdle
    /\ RawStatements \in DistillCorpora
    /\ RawAgents = AgentRows(RawStatements)
    /\ RawUniqueLinks \in SUBSET LinkRows(RawStatements)
    /\ set_pop \in PopChoices(DuplicateSets(RawStatements))
    /\ flt = NoFilterCall
    /\ NoDistillation
    /\ DumpIdle
    /\ ClientsIdle
    /\ KbIdle

CallDistill ==
    \E num_procs \in NumProcs, handle_duplicates \in HandleDuplicates,
       weed_evidence \in BOOLEAN, batch_size \in BatchSizes :
        distill_stmts(num_procs, handle_duplicates, weed_evidence, batch_size)

DistillNext ==
    \/ CallDistill /\ DistillFrame
    \/ distill_delete_batch /\ DistillFrame
    \/ delete_links /\ DistillFrame
    \/ delete_agents /\ DistillFrame
    \/ delete_statements /\ DistillFrame
    \/ distill_return /\ DistillFrame

SpecDistill == DistillInit /\ [][DistillNext]_vars

-----------------------------------------------------------------------------
(* dump(db, ro), stage by stage: SpecDump.                                 *)

\* What a prefix of an earlier date holds: nothing, an unfinished dump, a
\* finished one, or one stage output alone.
PriorDumps == {{}, {"start"}, StageNames, {"sif"}}

\* The dump root before the dump: the prefix of its date stamp is empty.
DumpInit ==
    /\ CurationIdle
    /\ DistillIdle
    /\ s3 \in {f \in [DateStamps -> PriorDumps] : f[MaxDate] = {}}
    /\ principal = PrincipalIdle
    /\ ro \in {{}, RoFinalTables}
    /\ lambda_env = {}
    /\ call_records = <<>>
    /\ dump = NoDumpCall
    /\ CallsIdle
    /\ ClientsIdle
    /\ KbIdle

\* The output of a stage, written under the date stamp of the dump.
put_marker(stage) == [s3 EXCEPT ![dump.date_stamp] = @ \cup {stage}]

\* _set_lambda_env(..., settings): replaces the settings of the serverless
\* environment; the call is recorded.
set_lambda_env(settings) ==
    /\ lambda_env' = settings
    /\ call_records' =
          Append(call_records,
                 [func_name |-> "_set_lambda_env", settings |-> settings])

\* The start marker.
dump_start ==
    /\ dump.pc = "idle"
    /\ s3' = put_marker("start")
    /\ dump' = [dump EXCEPT !.pc = "building", !.ro_before = ro]
    /\ UNCHANGED <<principal, ro, lambda_env, call_records>>

\* The read-only tables are built, one at a time, in the schema 'readonly'
\* of the principal database.
dump_build_table ==
    /\ dump.pc = "building"
    /\ \E tbl \in RoTables \ principal.readonly_tables :
          principal' = [schemas |-> principal.schemas \cup {"readonly"},
                        readonly_tables |-> principal.readonly_tables \cup {tbl}]
    /\ UNCHANGED <<s3, ro, lambda_env, call_records, dump>>

\* The readonly stage: the finished schema is dumped to the dump root.
dump_readonly ==
    /\ dump.pc = "building"
    /\ principal.readonly_tables = RoTables
    /\ s3' = put_marker("readonly")
    /\ dump' = [dump EXCEPT !.pc = "dumped"]
    /\ UNCHANGED <<principal, ro, lambda_env, call_records>>

\* The serverless environment is told to use the principal database.
dump_set_override ==
    /\ dump.pc = "dumped"
    /\ set_lambda_env({<<OverrideName, PrincipalUrl>>})
    /\ dump' = [dump EXCEPT !.pc = "diverted"]
    /\ UNCHANGED <<s3, principal, ro>>

\* A promotion that activates the tables one at a time.
dump_promote_by_table ==
    /\ dump.pc = "diverted"
    /\ \E tbl \in RoFinalTables :
          /\ ro' = (ro \ dump.ro_before) \cup {tbl}
          /\ dump' = [dump EXCEPT !.pc = IF ro' = RoFinalTables
                                         THEN "promoted" ELSE @,
                                  !.promoted = ro' = RoFinalTables]
    /\ UNCHANGED <<s3, principal, lambda_env, call_records>>

\* The promotion: the dumped schema becomes the content of the read-only
\* database in one step, its temporary tables dropped.
dump_promote ==
    /\ dump.pc = "diverted"
    /\ ro' = RoTables \ RoTempTables
    /\ dump' = [dump EXCEPT !.pc = "promoted", !.promoted = TRUE]
    /\ UNCHANGED <<s3, principal, lambda_env, call_records>>

\* An end of the diversion that makes no call.
dump_clear_override_skipped ==
    /\ dump.pc = "promoted"
    /\ dump' = [dump EXCEPT !.pc = "exporting"]
    /\ UNCHANGED <<s3, principal, ro, lambda_env, call_records>>

\* The serverless environment is told to resume its default configuration.
dump_clear_override ==
    /\ dump.pc = "promoted"
    /\ set_lambda_env({})
    /\ dump' = [dump EXCEPT !.pc = "exporting"]
    /\ UNCHANGED <<s3, principal, ro>>

\* The derived exports, in no order fixed among them.
dump_export ==
    /\ dump.pc = "exporting"
    /\ \E stage \in DerivedStages \ s3[dump.date_stamp] :
          s3' = put_marker(stage)
    /\ UNCHANGED <<principal, ro, lambda_env, call_records, dump>>

\* The schema 'readonly' is dropped from the principal database, once the
\* promotion is complete.
dump_teardown ==
    /\ dump.pc = "exporting"
    /\ DerivedStages \subseteq s3[dump.date_stamp]
    /\ dump.promoted
    /\ principal' = [schemas |-> principal.schemas \ {"readonly"},
                     readonly_tables |-> {}]
    /\ dump' = [dump EXCEPT !.pc = "torn down", !.torn_down = TRUE]
    /\ UNCHANGED <<s3, ro, lambda_env, call_records>>

\* An end marker written while derived exports are still to come.
dump_end_early ==
    /\ dump.pc \in {"exporting", "torn down"}
    /\ s3' = put_marker("end")
    /\ dump' = [dump EXCEPT !.pc = "done"]
    /\ UNCHANGED <<principal, ro, lambda_env, call_records>>

\* The end marker.
dump_end ==
    /\ dump.pc = "torn down"
    /\ s3' = put_marker("end")
    /\ dump' = [dump EXCEPT !.pc = "done"]
    /\ UNCHANGED <<principal, ro, lambda_env, call_records>>

\* A stage fails: the failure propagates to the caller of dump.
dump_fail ==
    /\ dump.pc \notin {"idle", "done", "failed"}
    /\ dump' = [dump EXCEPT !.pc = "failed"]
    /\ UNCHANGED <<s3, principal, ro, lambda_env, call_records>>

\* The dump leaves the other components as they are.
DumpFrame ==
    UNCHANGED <<curVars, dbVars, fltVars, distVars, callVars, clientVars, kbVars>>

DumpNext ==
    \/ dump_start /\ DumpFrame
    \/ dump_build_table /\ DumpFrame
    \/ dump_readonly /\ DumpFrame
    \/ dump_set_override /\ DumpFrame
    \/ dump_promote /\ DumpFrame
    \/ dump_clear_override /\ DumpFrame
    \/ dump_export /\ DumpFrame
    \/ dump_teardown /\ DumpFrame
    \/ dump_end /\ DumpFrame
    \/ dump_fail /\ DumpFrame

SpecDump == DumpInit /\ [][DumpNext]_vars

-----------------------------------------------------------------------------
(* list_dumps and get_latest_dump_s3_path on a dump root: SpecDumpList.    *)

\* The keys under the dump root come in the order of their names: the
\* date stamps of a set, ascending.
RECURSIVE SortedDates(_)
SortedDates(S) ==
    IF S = {} THEN <<>>
    ELSE LET first == CHOOSE d \in S : \A e \in S : d <= e
         IN <<first>> \o SortedDates(S \ {first})

\* A list_dumps that takes ended=False for no filter.
list_dumps_end_unread(started, ended) ==
    LET keep(d) ==
            /\ started = "True" => "start" \in s3[d]
            /\ ended = "True" => "end" \in s3[d]
    IN SelectSeq(SortedDates({d \in DateStamps : s3[d] # {}}), keep)

\* list_dumps(started=None, ended=None): the prefixes under the dump root,
\* only those with a start marker if started, only those with (without)
\* an end marker if ended is True (False).
list_dumps(started, ended) ==
    LET keep(d) ==
            /\ started = "True" => "start" \in s3[d]
            /\ ended = "True" => "end" \in s3[d]
            /\ ended = "False" => "end" \notin s3[d]
    IN SelectSeq(SortedDates({d \in DateStamps : s3[d] # {}}), keep)

\* A get_latest_dump_s3_path that returns the latest prefix there is.
get_latest_of_any(stage_name) ==
    LET all_dumps == list_dumps("None", "None")
    IN IF all_dumps = <<>> THEN 0 ELSE all_dumps[Len(all_dumps)]

\* get_latest_dump_s3_path(stage_name): the prefixes from the latest to the
\* earliest, the first that holds the output of the stage; None if none.
get_latest_dump_s3_path(stage_name) ==
    LET all_dumps == list_dumps("None", "None")
        with_stage == {i \in 1..Len(all_dumps) : stage_name \in s3[all_dumps[i]]}
    IN IF with_stage = {} THEN 0
       ELSE all_dumps[CHOOSE i \in with_stage : \A j \in with_stage : j <= i]

call_list_dumps(started, ended) ==
    /\ dump_query.fn = "none"
    /\ dump_query' = [NoDumpQuery EXCEPT !.fn = "list_dumps",
                                         !.started = started,
                                         !.ended = ended,
                                         !.dumps = list_dumps(started, ended)]

call_get_latest_dump_s3_path(stage_name) ==
    /\ dump_query.fn = "none"
    /\ dump_query' = [NoDumpQuery EXCEPT
                         !.fn = "get_latest_dump_s3_path",
                         !.stage = stage_name,
                         !.latest = get_latest_dump_s3_path(stage_name)]

\* What a prefix may hold: any of these stage outputs.
ListedStages == {"start", "sif", "end"}

DumpListInit ==
    /\ CurationIdle
    /\ DistillIdle
    /\ s3 \in [DateStamps -> SUBSET ListedStages]
    /\ principal = PrincipalIdle
    /\ ro = {}
    /\ lambda_env = {}
    /\ call_records = <<>>
    /\ dump = NoDumpCall
    /\ CallsIdle
    /\ ClientsIdle
    /\ KbIdle

\* The two functions read the dump root and change nothing.
DumpListFrame ==
    UNCHANGED <<curVars, dbVars, fltVars, distVars, dumpVars, clientVars, kbVars>>

DumpListNext ==
    \/ /\ \E started \in {"None", "True"}, ended \in {"None", "True", "False"} :
             call_list_dumps(started, ended)
       /\ DumpListFrame
    \/ /\ \E stage_name \in StageNames :
             call_get_latest_dump_s3_path(stage_name)
       /\ DumpListFrame

SpecDumpList == DumpListInit /\ [][DumpListNext]_vars

-----------------------------------------------------------------------------
(* get_grounding_curations of client/principal/curation.py: SpecGrounding. *)
(* Here a string is a sequence of characters.                              *)

\* The curation table holds at most MaxCurs rows when it is read.
MaxCurs == 2

\* cur.text of a row without text: None, a value that is no string.
NoText == <<"None">>

Arrow == <<"]", " ", "-", ">", " ">>
IsSpace(c) == c \in {" ", "\n"}

\* str.strip(): the string without its leading and trailing white space.
strip(s) ==
    IF \A i \in 1..Len(s) : IsSpace(s[i]) THEN <<>>
    ELSE LET a == CHOOSE i \in 1..Len(s) :
                      ~IsSpace(s[i]) /\ \A j \in 1..(i - 1) : IsSpace(s[j])
             b == CHOOSE i \in 1..Len(s) :
                      ~IsSpace(s[i]) /\ \A j \in (i + 1)..Len(s) : IsSpace(s[j])
         IN SubSeq(s, a, b)

\* re.match('^\[(.*)\] -> ([^ ]+)$', cur_text): the positions k of a "] -> "
\* at which the pattern can be split.  (.*) crosses no line break and
\* ([^ ]+) is one or more characters other than the blank, up to the end.
ArrowMatches(s) ==
    {k \in 2..(Len(s) - Len(Arrow)) :
        /\ SubSeq(s, k, k + Len(Arrow) - 1) = Arrow
        /\ \A j \in 2..(k - 1) : s[j] # "\n"
        /\ \A j \in (k + Len(Arrow))..Len(s) : s[j] # " "}

\* The match object and match.groups(); (.*) is greedy, so the last
\* position that lets the pattern match is the one taken.
re_match_grounding(s) ==
    IF Len(s) = 0 \/ s[1] # "[" \/ ArrowMatches(s) = {}
    THEN [matched |-> FALSE, txt |-> <<>>, dbid_str |-> <<>>]
    ELSE LET k == CHOOSE x \in ArrowMatches(s) :
                      \A y \in ArrowMatches(s) : y <= x
         IN [matched |-> TRUE,
             txt |-> SubSeq(s, 2, k - 1),
             dbid_str |-> SubSeq(s, k + Len(Arrow), Len(s))]

\* str.split(sep): the pieces between the separators; a string without the
\* separator, the empty one included, is one piece.
RECURSIVE split(_, _)
split(s, sep) ==
    IF \E i \in 1..Len(s) : s[i] = sep
    THEN LET i == CHOOSE k \in 1..Len(s) :
                      s[k] = sep /\ \A j \in 1..(k - 1) : s[j] # sep
         IN <<SubSeq(s, 1, i - 1)>> \o split(SubSeq(s, i + 1, Len(s)), sep)
    ELSE <<s>>

\* entry.split(sep, maxsplit=1): cut at the first separator only.
split_maxsplit_1(entry, sep) ==
    IF \E i \in 1..Len(entry) : entry[i] = sep
    THEN LET i == CHOOSE k \in 1..Len(entry) :
                      entry[k] = sep /\ \A j \in 1..(k - 1) : entry[j] # sep
         IN <<SubSeq(entry, 1, i - 1), SubSeq(entry, i + 1, Len(entry))>>
    ELSE <<entry>>

\* The try block: dbid_entries and the dict made of them.  Unpacking an
\* entry that is no pair raises, and the curation is skipped.  A dict is
\* the set of its (key, value) pairs; of two entries with one key the
\* later one stays.
parse_dbids(dbid_str) ==
    LET pieces == split(dbid_str, "|")
        dbid_entries ==
            [i \in 1..Len(pieces) |-> split_maxsplit_1(pieces[i], ":")]
    IN IF \E i \in 1..Len(pieces) : Len(dbid_entries[i]) # 2
       THEN [raised |-> TRUE, dbids |-> {}]
       ELSE [raised |-> FALSE,
             dbids |-> {<<dbid_entries[i][1], dbid_entries[i][2]>> :
                           i \in {k \in 1..Len(pieces) :
                                     \A j \in (k + 1)..Len(pieces) :
                                        dbid_entries[j][1] # dbid_entries[k][1]}}]

\* A loop body that keeps the mapping a mention text already has.
set_grounding_keep_first(groundings, txt, dbids) ==
    IF \E g \in groundings : g[1] = txt THEN groundings
    ELSE groundings \cup {<<txt, dbids>>}

\* groundings[txt] = dbids
set_grounding(groundings, txt, dbids) ==
    {g \in groundings : g[1] # txt} \cup {<<txt, dbids>>}

\* The loop over curs, from the first row on.
RECURSIVE parse_curations(_, _)
parse_curations(curs, groundings) ==
    IF Len(curs) = 0 THEN groundings
    ELSE LET cur == Head(curs)
             match == re_match_grounding(strip(cur.text))
             parsed == parse_dbids(match.dbid_str)
         IN IF cur.text = NoText \/ cur.text = <<>>
            THEN parse_curations(Tail(curs), groundings)
            ELSE IF ~match.matched
            THEN parse_curations(Tail(curs), groundings)
            ELSE IF parsed.raised
            THEN parse_curations(Tail(curs), groundings)
            ELSE parse_curations(Tail(curs),
                                 set_grounding(groundings, match.txt,
                                               parsed.dbids))

\* get_curations(db=db, tag=...): the rows with the tag, in the order the
\* database hands them out.
get_curations(rows, tag) == SelectSeq(rows, LAMBDA r : r.tag = tag)

get_grounding_curations(rows) ==
    parse_curations(get_curations(rows, "grounding"), {})

call_get_grounding_curations ==
    /\ grounding.pc = "idle"
    /\ grounding' = [grounding EXCEPT
                        !.pc = "returned",
                        !.groundings = get_grounding_curations(grounding.curs)]

\* The texts curators have written: a mention in brackets, an arrow and a
\* list of entries joined by "|", each of these well or badly formed, with
\* or without white space around.
EntryForms ==
    {[ns |-> <<"M">>, sep |-> <<":">>, id |-> <<"1">>],
     [ns |-> <<"M">>, sep |-> <<":">>, id |-> <<"1", ":", "2">>],
     [ns |-> <<"T">>, sep |-> <<":">>, id |-> <<"1">>],
     [ns |-> <<"x">>, sep |-> <<>>, id |-> <<>>],
     [ns |-> <<>>, sep |-> <<>>, id |-> <<>>]}
RhsForms ==
    {<<e>> : e \in EntryForms} \cup {<<e, f>> : e, f \in EntryForms}
GroundingForms ==
    {[pad_l |-> <<>>, pad_r |-> <<>>, mention |-> <<"a">>, arrow |-> Arrow,
      entries |-> L] : L \in RhsForms}
    \cup {[pad_l |-> <<>>, pad_r |-> <<>>, mention |-> <<"b">>,
           arrow |-> Arrow, entries |-> <<e>>] : e \in EntryForms}
    \cup {[pad_l |-> <<"\n">>, pad_r |-> <<" ">>, mention |-> <<"a">>,
           arrow |-> Arrow, entries |-> <<e>>] : e \in EntryForms}
    \cup {[pad_l |-> <<>>, pad_r |-> <<>>, mention |-> <<"a">>,
           arrow |-> <<"]", "-", ">">>, entries |-> <<e>>] :
             e \in {f \in EntryForms : f.id = <<"1">>}}

RenderEntry(e) == e.ns \o e.sep \o e.id
RECURSIVE RenderEntries(_)
RenderEntries(L) ==
    IF Len(L) = 1 THEN RenderEntry(L[1])
    ELSE RenderEntry(L[1]) \o <<"|">> \o RenderEntries(Tail(L))
Render(f) ==
    f.pad_l \o <<"[">> \o f.mention \o f.arrow \o RenderEntries(f.entries)
        \o f.pad_r

GroundingTexts == {Render(f) : f \in GroundingForms} \cup {NoText, <<>>}
CurationRows ==
    {[tag |-> "grounding", text |-> t] : t \in GroundingTexts}
    \cup {[tag |-> "wrong_relation",
           text |-> <<"[", "a">> \o Arrow \o <<"T", ":", "1">>]}

GroundingInit ==
    /\ CurationIdle
    /\ DistillIdle
    /\ DumpIdle
    /\ KbIdle
    /\ grounding \in
          {[NoGroundingCall EXCEPT !.curs = c] :
              c \in UNION {[1..n -> CurationRows] : n \in 0..MaxCurs}}
    /\ job_args = NoJobArgs
    /\ tas = NoTasCall

GroundingFrame ==
    UNCHANGED <<curVars, dbVars, fltVars, distVars, dumpVars, callVars,
                job_args, tas, kbVars>>

GroundingNext ==
    \/ /\ call_get_grounding_curations
       /\ GroundingFrame

SpecGrounding == GroundingInit /\ [][GroundingNext]_vars

-----------------------------------------------------------------------------
(* PreassemblySubmitter._iter_job_args of preassembly/preassembly_sub-     *)
(* mitter.py: SpecJobArgs.                                                 *)

\* A supplied type list has at most MaxTypes names.
MaxTypes == 2

DEFAULT_AVOID_STATEMENTS == <<"Event", "Influence", "Unresolved">>

\* get_all_descendants(Statement): the names of classes the statement
\* library derives from Statement, the three avoided ones among them.
StatementDescendants ==
    <<"Complex", "Event", "Phosphorylation", "Influence", "Unresolved">>

VALID_STATEMENTS ==
    SelectSeq(StatementDescendants,
              LAMBDA name : \A i \in 1..Len(DEFAULT_AVOID_STATEMENTS) :
                               DEFAULT_AVOID_STATEMENTS[i] # name)

\* args[0] when no list is supplied: None, a value that is no list of names.
NoTypeList == <<"None">>

\* type_list after the first statements of the body.
type_list_of(arg) == IF arg = NoTypeList THEN VALID_STATEMENTS ELSE arg

\* A validation that finds nothing.
invalid_types_none(type_list) == {}

\* set(type_list) - set(VALID_STATEMENTS)
invalid_types_of(type_list) ==
    {type_list[i] : i \in 1..Len(type_list)}
        \ {VALID_STATEMENTS[i] : i \in 1..Len(VALID_STATEMENTS)}

\* self._iter_job_args(*args): the call makes a generator and runs nothing
\* of the body yet.
iter_job_args(type_list, rest) ==
    /\ job_args.pc = "idle"
    /\ job_args' = [job_args EXCEPT !.pc = "created",
                                    !.type_list = type_list,
                                    !.args = rest]

\* next() on the generator: the first one runs the validation; each one
\* runs the body up to the next yield, the raise or the end.
next_job_args ==
    /\ job_args.pc \in {"created", "suspended"}
    /\ LET type_list == type_list_of(job_args.type_list)
           invalid_types == invalid_types_of(type_list)
           n == Len(job_args.yielded)
       IN IF job_args.pc = "created" /\ invalid_types # {}
          THEN job_args' = [job_args EXCEPT !.pc = "raised",
                                            !.invalid_types = invalid_types]
          ELSE IF n < Len(type_list)
          THEN job_args' =
                  [job_args EXCEPT
                      !.pc = "suspended",
                      !.yielded = Append(@, <<type_list[n + 1]>>
                                               \o job_args.args)]
          ELSE job_args' = [job_args EXCEPT !.pc = "exhausted"]

\* The names callers pass, and the positional arguments after the list:
\* the batch size, and the continuation flag.
TypeNames == {"Complex", "Phosphorylation", "Influence", "Bogus"}
TypeLists ==
    {NoTypeList} \cup UNION {[1..n -> TypeNames] : n \in 0..MaxTypes}
RestArgs == {<<>>, <<"1000">>, <<"1000", "True">>}

JobArgsInit ==
    /\ CurationIdle
    /\ DistillIdle
    /\ DumpIdle
    /\ ClientsIdle
    /\ KbIdle

JobArgsFrame ==
    UNCHANGED <<curVars, dbVars, fltVars, distVars, dumpVars, callVars,
                grounding, tas, kbVars>>

JobArgsNext ==
    \/ /\ \E type_list \in TypeLists, rest \in RestArgs :
             iter_job_args(type_list, rest)
       /\ JobArgsFrame
    \/ /\ next_job_args
       /\ JobArgsFrame

SpecJobArgs == JobArgsInit /\ [][JobArgsNext]_vars

-----------------------------------------------------------------------------
(* TasManager._get_statements of managers/knowledgebase_manager.py:        *)
(* SpecTas.                                                                *)

\* process_csv() gives at most MaxTas statements.
MaxTas == 3

\* The list get_order_value looks class_min up in.
class_min_order == <<"Kd < 100nM", "100nM < Kd < 1uM">>

\* list.index(cm): the first position of cm, counted from 0; ValueError
\* when cm is not in the list.
get_order_value(stmt) ==
    LET cm == stmt.class_min
        at == {i \in 1..Len(class_min_order) : class_min_order[i] = cm}
    IN IF at = {} THEN [raised |-> TRUE, value |-> 0]
       ELSE [raised |-> FALSE,
             value |-> (CHOOSE i \in at : \A j \in at : i <= j) - 1]

\* A choice that keeps the statement that arrived.
choose_better_latest(s, known) == s

\* self.choose_better(s, stmt_dict.get(mk)): known is the set holding the
\* statement already kept for the key, or the empty set for None.  min()
\* returns the first of the smallest, and s stands first.
choose_better(s, known) ==
    IF \E k \in known : get_order_value(k).value < get_order_value(s).value
    THEN CHOOSE k \in known : TRUE
    ELSE s

\* The loop of _get_statements over proc.statements; stmt_dict is the set
\* of the statements kept, one per matches key.
RECURSIVE tas_stmt_dict(_, _)
tas_stmt_dict(statements, stmt_dict) ==
    IF Len(statements) = 0 THEN [error |-> "None", stmt_dict |-> stmt_dict]
    ELSE LET s == Head(statements)
             known == {k \in stmt_dict : k.mk = s.mk}
         IN IF get_order_value(s).raised
            THEN [error |-> "ValueError", stmt_dict |-> stmt_dict]
            ELSE tas_stmt_dict(Tail(statements),
                               (stmt_dict \ known)
                                  \cup {choose_better(s, known)})

get_statements ==
    /\ tas.pc = "idle"
    /\ LET out == tas_stmt_dict(tas.statements, {})
       IN tas' = [tas EXCEPT
                     !.pc = IF out.error = "None" THEN "returned"
                            ELSE "raised",
                     !.error = out.error,
                     !.returned = IF out.error = "None" THEN out.stmt_dict
                                  ELSE {}]

\* What process_csv() can give: statements with a matches key and the
\* class_min of their first evidence, told apart by their place in the file.
MatchesKeys == {"k1", "k2"}
ClassMins == {"Kd < 100nM", "100nM < Kd < 1uM", "1uM < Kd < 10uM"}
TasStatements ==
    UNION {{[i \in 1..n |-> [n |-> i, mk |-> f[i][1], class_min |-> f[i][2]]] :
               f \in [1..n -> MatchesKeys \X ClassMins]} : n \in 0..MaxTas}

TasInit ==
    /\ CurationIdle
    /\ DistillIdle
    /\ DumpIdle
    /\ KbIdle
    /\ grounding = NoGroundingCall
    /\ job_args = NoJobArgs
    /\ tas \in {[NoTasCall EXCEPT !.statements = s] : s \in TasStatements}

TasFrame ==
    UNCHANGED <<curVars, dbVars, fltVars, distVars, dumpVars, callVars,
                grounding, job_args, kbVars>>

TasNext ==
    \/ /\ get_statements
       /\ TasFrame

SpecTas == TasInit /\ [][TasNext]_vars

-----------------------------------------------------------------------------
(* KnowledgebaseManager.upload and check_reference of managers/knowledge-  *)
(* base_manager.py, run by two processes: SpecKb.                          *)

\* A process uploads at most MaxUploads times.
MaxUploads == 2

\* The name attributes of the managers that upload.
KbNames == {"tas", "signor"}

\* A select that finds no row.
select_one_absent(name) == {}

\* db.select_one(db.DBInfo.id, db.DBInfo.db_name == self.name): the ids the
\* query can answer with, one of the rows of that name; none stands for
\* the answer None.
select_one(name) == {row.id : row \in {r \in DbInfo : r.db_name = name}}

\* The callers' discipline: with serialized ingestion an upload for a name
\* starts only while no other upload for that name is under way.
may_upload(p, name) ==
    kb.serialized =>
        \A q \in KbProcs \ {p} :
           kb.proc[q].pc = "idle" \/ kb.proc[q].name # name

\* manager.upload(db) is called.
kb_upload(p, name) ==
    /\ kb.proc[p].pc = "idle"
    /\ kb.proc[p].uploads < MaxUploads
    /\ may_upload(p, name)
    /\ kb' = [kb EXCEPT !.proc[p].pc = "select", !.proc[p].name = name,
                        !.proc[p].dbid = 0]
    /\ UNCHANGED DbInfo

\* check_reference, the select and the test of its answer.
kb_select(p) ==
    /\ kb.proc[p].pc = "select"
    /\ LET found == select_one(kb.proc[p].name)
       IN IF found = {}
          THEN kb' = [kb EXCEPT !.proc[p].pc = "insert"]
          ELSE \E dbid \in found :
                  kb' = [kb EXCEPT !.proc[p].pc = "insert_db_stmts",
                                   !.proc[p].dbid = dbid]
    /\ UNCHANGED DbInfo

\* check_reference, the insert made when the select answered None; the new
\* row gets the next id of the table.
kb_insert(p) ==
    /\ kb.proc[p].pc = "insert"
    /\ LET dbid == Cardinality(DbInfo) + 1
       IN /\ DbInfo' = DbInfo \cup {[id |-> dbid, db_name |-> kb.proc[p].name]}
          /\ kb' = [kb EXCEPT !.proc[p].pc = "insert_db_stmts",
                              !.proc[p].dbid = dbid]

\* _get_statements and insert_db_stmts(db, set(stmts), dbid): the
\* statements go in under the id check_reference returned.
kb_insert_db_stmts(p) ==
    /\ kb.proc[p].pc = "insert_db_stmts"
    /\ kb' = [kb EXCEPT !.proc[p].pc = "idle",
                        !.proc[p].uploads = @ + 1,
                        !.stmts = @ \cup {[db_name |-> kb.proc[p].name,
                                           db_info_id |-> kb.proc[p].dbid]}]
    /\ UNCHANGED DbInfo

KbInit ==
    /\ CurationIdle
    /\ DistillIdle
    /\ DumpIdle
    /\ ClientsIdle
    /\ DbInfo = {}
    /\ kb \in {[NoUploads EXCEPT !.serialized = b] : b \in BOOLEAN}

KbFrame ==
    UNCHANGED <<curVars, dbVars, fltVars, distVars, dumpVars, callVars,
                clientVars>>

KbNext ==
    \/ /\ \E p \in KbProcs, name \in KbNames : kb_upload(p, name)
       /\ KbFrame
    \/ /\ \E p \in KbProcs : kb_select(p)
       /\ KbFrame
    \/ /\ \E p \in KbProcs : kb_insert(p)
       /\ KbFrame
    \/ /\ \E p \in KbProcs : kb_insert_db_stmts(p)
       /\ KbFrame

SpecKb == KbInit /\ [][KbNext]_vars

-----------------------------------------------------------------------------
(* Claims about submit_curation.                                           *)

\* C1: submit_curation called with a hash_val that is the hash of no known
\* preassembled statement (the insert is refused by the foreign key and by
\* nothing else) fails with a BadHashError carrying exactly that hash
\* value, and the curation table is as it was before the call.
C1_BadHashForEveryUnknownHash ==
    (/\ cur_last.op = "submit_curation"
     /\ cur_last.inp.hash_val \notin PaStatements
     /\ cur_last.db_msg = FkViolationMsg(cur_last.inp.hash_val))
        => /\ cur_last.raised = "BadHashError"
           /\ int(cur_last.h) = cur_last.inp.hash_val
           /\ Curation = cur_last.before

\* Whether any line of the message matches the bad-hash detail pattern.
MatchesBadHashPattern(msg) ==
    \E i \in 1..Len(splitlines(msg)) : re_match(splitlines(msg)[i]).matched

\* C2: for every integrity error raised by the insert whose message does
\* not match the bad-hash detail pattern, whatever its shape and number of
\* lines, submit_curation raises that same integrity error: never a
\* BadHashError and never an error of another kind.
C2_UnmatchedErrorReraised ==
    (/\ cur_last.op = "submit_curation"
     /\ cur_last.db_error
     /\ ~MatchesBadHashPattern(cur_last.db_msg))
        => cur_last.raised = "IntegrityError"

-----------------------------------------------------------------------------
(* Claims about the filters.  The claims read the raw_statements table and *)
(* the tables it refers to, not the nested dict the filter works on.       *)

RdgRows == {s \in RawStatements : s.reading_id # "NULL"}
TcOf(s) == ContentOf(ReadingOf(s.reading_id).text_content_id)
RvOf(s) == ReadingOf(s.reading_id).reader_version
SrcRank(s) == Index(text_content_sources, TcOf(s).source)
RvRank(s) == Index(reader_versions[ReaderOf(RvOf(s))], RvOf(s))
SameTextRef(s, t) == TcOf(s).text_ref_id = TcOf(t).text_ref_id
SameReader(s, t) == ReaderOf(RvOf(s)) = ReaderOf(RvOf(t))

\* The call of get_filtered_rdg_stmts of this state returned.
RdgReturned == flt.fn = "get_filtered_rdg_stmts" /\ flt.rdg.error = "none"

\* A leaf survives when no statement of its text ref comes from a better
\* source and none of its content and reader from a better version.
LeafSurvives(s) ==
    \A t \in RdgRows :
        /\ SameTextRef(s, t) => SrcRank(t) <= SrcRank(s)
        /\ (TcOf(s) = TcOf(t) /\ SameReader(s, t)) => RvRank(t) <= RvRank(s)

\* The raw statements that share the leaf and the hash of s.
HashGroup(s) ==
    {t.id : t \in {x \in RdgRows : /\ x.reading_id = s.reading_id
                                   /\ x.mk_hash = s.mk_hash}}

\* C3 as claimed: of any two raw statements that share a hash within one
\* leaf, distillation (ignore_duplicates = False) keeps exactly one and
\* puts the other in the exact-duplicate set, not in the bettered set.
C3_OneOfEveryPairKept ==
    (RdgReturned /\ ~flt.ignore_duplicates) =>
        \A s, t \in RdgRows :
            (s.id # t.id /\ t.id \in HashGroup(s)) =>
                \E k \in {s.id, t.id} :
                    LET o == CHOOSE x \in {s.id, t.id} : x # k
                    IN /\ k \in flt.rdg.stmts
                       /\ o \notin flt.rdg.stmts
                       /\ o \in flt.rdg.duplicate_sids
                       /\ o \notin flt.rdg.bettered_duplicate_sids

\* C3 as amended: of the raw statements that share a hash within one leaf
\* that survives the source and version filters, exactly one is kept, every
\* other one is an exact duplicate, and none is a bettered duplicate.
C3_OneOfEveryGroupKept ==
    (RdgReturned /\ ~flt.ignore_duplicates) =>
        \A s \in RdgRows :
            (LeafSurvives(s) /\ Cardinality(HashGroup(s)) > 1) =>
                /\ Cardinality(HashGroup(s) \cap flt.rdg.stmts) = 1
                /\ HashGroup(s) \ flt.rdg.stmts \subseteq flt.rdg.duplicate_sids
                /\ HashGroup(s) \cap flt.rdg.bettered_duplicate_sids = {}

C3_Witness ==
    /\ RdgReturned /\ ~flt.ignore_duplicates
    /\ \E s \in RdgRows :
          /\ LeafSurvives(s) /\ Cardinality(HashGroup(s)) > 1
          /\ HashGroup(s) \cap flt.arg # {}
          /\ flt.rdg.duplicate_sids # {}
    /\ \E s \in RdgRows : ~LeafSurvives(s)

\* C4 as claimed: in a text ref with raw statements of two versions of one
\* reader, every statement read with the less preferred version is a
\* bettered duplicate and is not kept.
C4_OlderVersionOfTextRefBettered ==
    RdgReturned =>
        \A s, t \in RdgRows :
            (SameTextRef(s, t) /\ SameReader(s, t) /\ RvRank(s) < RvRank(t)) =>
                /\ s.id \in flt.rdg.bettered_duplicate_sids
                /\ s.id \notin flt.rdg.stmts

\* C4 as amended: in a text content with raw statements of two versions of
\* one reader, every statement read with the less preferred version is a
\* bettered duplicate and is not kept.
C4_OlderVersionOfContentBettered ==
    RdgReturned =>
        \A s, t \in RdgRows :
            (TcOf(s) = TcOf(t) /\ SameReader(s, t) /\ RvRank(s) < RvRank(t)) =>
                /\ s.id \in flt.rdg.bettered_duplicate_sids
                /\ s.id \notin flt.rdg.stmts

C4_Witness ==
    /\ RdgReturned
    /\ \E s, t \in RdgRows :
          /\ TcOf(s) = TcOf(t) /\ SameReader(s, t) /\ RvRank(s) < RvRank(t)
          /\ LeafSurvives(t)
          /\ t.id \in flt.rdg.stmts
          /\ s.id \in flt.rdg.bettered_duplicate_sids

\* C5: in a text ref with raw statements from two sources, every statement
\* from the source that ranks lower in text_content_sources is a bettered
\* duplicate and is not kept.
C5_LowerSourceBettered ==
    RdgReturned =>
        \A s, t \in RdgRows :
            (SameTextRef(s, t) /\ SrcRank(s) < SrcRank(t)) =>
                /\ s.id \in flt.rdg.bettered_duplicate_sids
                /\ s.id \notin flt.rdg.stmts

C5_Witness ==
    /\ RdgReturned
    /\ \E s, t, u \in RdgRows :
          /\ SameTextRef(s, t) /\ SameTextRef(t, u)
          /\ SrcRank(s) < SrcRank(t) /\ SrcRank(t) < SrcRank(u)
          /\ {s.id, t.id} \subseteq flt.rdg.bettered_duplicate_sids
          /\ u.id \in flt.rdg.stmts

\* C6: for every database and every not_duplicates, get_filtered_db_stmts
\* gives the same kept set and the same duplicate ids with num_procs = 1
\* and with num_procs = 4.
C6_PoolSameAsLoop ==
    (/\ flt.fn = "get_filtered_db_stmts"
     /\ flt.db1 # NotRun
     /\ flt.db4 # NotRun) => flt.db1 = flt.db4

-----------------------------------------------------------------------------
(* Claims about distill_stmts and delete_raw_statements_by_id.             *)

\* The raw statement ids that had a link when distill_stmts was called.
LinkedAtCall == {l.raw_stmt_id : l \in distill.before.links}

\* C7: after distill_stmts returns with weed_evidence=True, whatever the
\* value of handle_duplicates, no raw_unique_links row remains for a raw
\* statement id that was classified as a bettered duplicate and had a link
\* when the call began.
C7_BetteredLinksWeeded ==
    (distill.pc = "returned" /\ distill.weed_evidence) =>
        \A sid \in distill.bettered_duplicate_sids \cap LinkedAtCall :
            ~\E l \in RawUniqueLinks : l.raw_stmt_id = sid

\* C8: after delete_raw_statements_by_id(db, raw_sids, remove='all') has
\* completed, no raw_unique_links row, no raw_agents row and no
\* raw_statements row has an id of raw_sids.
C8_DeleteAllLeavesNoRow ==
    (del_call.pc = "done" /\ del_call.remove_arg = RemoveAll) =>
        \A sid \in del_call.raw_sids :
            /\ ~\E l \in RawUniqueLinks : l.raw_stmt_id = sid
            /\ ~\E a \in RawAgents : a.stmt_id = sid
            /\ ~\E s \in RawStatements : s.id = sid

\* A completed deletion with remove='all' of a statement that had a link
\* and an agent, which leaves the rows of another statement in place.
C8_Witness ==
    /\ del_call.pc = "done" /\ del_call.remove_arg = RemoveAll
    /\ \E sid \in del_call.raw_sids :
          /\ \E l \in del_call.before.links : l.raw_stmt_id = sid
          /\ \E a \in del_call.before.agents : a.stmt_id = sid
          /\ \E s \in del_call.before.statements : s.id = sid
    /\ RawStatements # {} /\ RawAgents # {} /\ RawUniqueLinks # {}

-----------------------------------------------------------------------------
(* Claims about the dump pipeline.                                         *)

\* C9: a successful dump(db, ro) has made exactly two environment-
\* configuration calls, in this order: the first sets INDRAROOVERRIDE to
\* the connection string of the principal database, the second passes
\* empty settings; and after a completed dump the override is not set.
C9_TwoLambdaCalls ==
    dump.pc = "done" =>
        /\ Len(call_records) = 2
        /\ \A i \in 1..2 : call_records[i].func_name = "_set_lambda_env"
        /\ call_records[1].settings = {<<OverrideName, PrincipalUrl>>}
        /\ call_records[2].settings = {}
        /\ ~\E kv \in lambda_env : kv[1] = OverrideName

\* A completed dump, all its stage outputs under its date stamp.
C9_Witness ==
    /\ dump.pc = "done"
    /\ s3[dump.date_stamp] = StageNames
    /\ Len(call_records) = 2

\* C10: the schema 'readonly' of the principal database is torn down only
\* after the promotion; the read-only database is at every moment as it
\* was before the dump or fully promoted (every table that is not
\* temporary active, every temporary table absent); and after a completed
\* dump the principal database has no schema 'readonly'.
C10_TeardownAfterPromotion ==
    /\ dump.torn_down => dump.promoted
    /\ ro = dump.ro_before \/ ro = RoTables \ RoTempTables
    /\ dump.promoted => ro = RoTables \ RoTempTables
    /\ dump.pc = "done" =>
          /\ "readonly" \notin principal.schemas
          /\ ro = RoTables \ RoTempTables

\* A dump that has promoted into an empty read-only database and torn
\* down the schema it had built in the principal database.
C10_Witness ==
    /\ dump.torn_down /\ dump.promoted
    /\ dump.ro_before = {}
    /\ ro = RoTables \ RoTempTables
    /\ "readonly" \notin principal.schemas

\* The date stamps that have a prefix under the dump root: those with at
\* least one object.
DumpPrefixes == {d \in DateStamps : s3[d] # {}}

Range(seq) == {seq[i] : i \in 1..Len(seq)}

\* C12: list_dumps returns the prefixes in ascending order of date stamp:
\* all of them without a filter, with started=True those that hold a start
\* marker, with ended=True those that hold an end marker, with ended=False
\* those that hold none, and with two filters those that pass both.
C12_ListDumpsFiltersInOrder ==
    dump_query.fn = "list_dumps" =>
        LET dumps == dump_query.dumps
        IN /\ \A i, j \in 1..Len(dumps) : i < j => dumps[i] < dumps[j]
           /\ Range(dumps) =
                 {d \in DumpPrefixes :
                     /\ dump_query.started = "True" => "start" \in s3[d]
                     /\ dump_query.ended = "True" => "end" \in s3[d]
                     /\ dump_query.ended = "False" => "end" \notin s3[d]}
           /\ (dump_query.started = "None" /\ dump_query.ended = "None")
                 => Len(dumps) = Cardinality(DumpPrefixes)

\* The started and unfinished dumps of a root that holds a finished dump
\* and a prefix without a start marker as well.
C12_Witness ==
    /\ dump_query.fn = "list_dumps"
    /\ dump_query.started = "True" /\ dump_query.ended = "False"
    /\ Len(dump_query.dumps) >= 1
    /\ \E d \in DumpPrefixes : {"start", "end"} \subseteq s3[d]
    /\ \E d \in DumpPrefixes : "start" \notin s3[d]

\* C13: get_latest_dump_s3_path(stage_name) returns the prefix of greatest
\* date stamp among those that hold the output of the stage, with or
\* without a start or an end marker, and none when no prefix holds it.
C13_LatestWithStage ==
    dump_query.fn = "get_latest_dump_s3_path" =>
        LET holders == {d \in DateStamps : dump_query.stage \in s3[d]}
        IN IF holders = {} THEN dump_query.latest = 0
           ELSE /\ dump_query.latest \in holders
                /\ \A d \in holders : d <= dump_query.latest

\* The latest prefix with the stage is not the latest prefix, and holds
\* neither marker.
C13_Witness ==
    /\ dump_query.fn = "get_latest_dump_s3_path"
    /\ dump_query.latest # 0
    /\ \E d \in DumpPrefixes : d > dump_query.latest
    /\ s3[dump_query.latest] \cap {"start", "end"} = {}


-----------------------------------------------------------------------------
(* Claims about get_grounding_curations.                                   *)

\* The forms a text was written in, the well-formed ones among them (the
\* arrow as the pattern has it, a ":" in every entry), and what a
\* well-formed text says: its mention and its namespaces with their ids.
FormsOf(text) == {f \in GroundingForms : Render(f) = text}
WellFormed(f) ==
    /\ f.arrow = Arrow
    /\ \A i \in 1..Len(f.entries) : f.entries[i].sep = <<":">>
FormOf(text) == CHOOSE f \in FormsOf(text) : WellFormed(f)
SaidBy(f) ==
    {<<f.entries[i].ns, f.entries[i].id>> :
        i \in {k \in 1..Len(f.entries) :
                  \A j \in (k + 1)..Len(f.entries) :
                     f.entries[j].ns # f.entries[k].ns}}
\* The rows that give a grounding: tagged 'grounding', text well-formed.
GroundingRows ==
    {i \in 1..Len(grounding.curs) :
        /\ grounding.curs[i].tag = "grounding"
        /\ \E f \in FormsOf(grounding.curs[i].text) : WellFormed(f)}
MentionOf(i) == FormOf(grounding.curs[i].text).mention

\* C14: the mapping get_grounding_curations returns has a key for exactly
\* the mentions of the well-formed rows tagged 'grounding', and the value of
\* a mention is what the last such row with that mention says; rows
\* without text, with text of another form, with an entry lacking ":" or
\* with another tag add nothing and replace nothing.
C14_LastWellFormedCurationWins ==
    grounding.pc = "returned" =>
        /\ \A g \in grounding.groundings :
              \E i \in GroundingRows :
                 /\ MentionOf(i) = g[1]
                 /\ \A j \in GroundingRows : j > i => MentionOf(j) # g[1]
                 /\ g[2] = SaidBy(FormOf(grounding.curs[i].text))
        /\ \A i \in GroundingRows :
              \E g \in grounding.groundings : g[1] = MentionOf(i)

\* A call that met two well-formed rows for one mention that say different
\* things, and returned what the later one says.
C14_Witness ==
    /\ grounding.pc = "returned"
    /\ \E i, j \in GroundingRows :
          /\ i < j
          /\ MentionOf(i) = MentionOf(j)
          /\ SaidBy(FormOf(grounding.curs[i].text))
                # SaidBy(FormOf(grounding.curs[j].text))
          /\ <<MentionOf(j), SaidBy(FormOf(grounding.curs[j].text))>>
                \in grounding.groundings

-----------------------------------------------------------------------------
(* Claims about PreassemblySubmitter._iter_job_args.                       *)

NamesOf(list) == {list[i] : i \in 1..Len(list)}
\* The tuples yielded so far are those of the first types of the list, in
\* the order of the list, each followed by the other arguments as given.
YieldedInListOrder ==
    LET type_list == type_list_of(job_args.type_list)
    IN /\ Len(job_args.yielded) <= Len(type_list)
       /\ \A i \in 1..Len(job_args.yielded) :
             job_args.yielded[i] = <<type_list[i]>> \o job_args.args
       /\ job_args.pc = "exhausted" =>
             Len(job_args.yielded) = Len(type_list)

\* C15 as stated: the list is rejected exactly when it holds a name that is
\* no statement type of the statement library, and then nothing is
\* yielded; an accepted list yields one tuple per listed type, in order.
C15_RejectedIffUnrecognized ==
    LET type_list == type_list_of(job_args.type_list)
        recognized == NamesOf(StatementDescendants)
    IN /\ job_args.pc = "raised" =>
             /\ ~(NamesOf(type_list) \subseteq recognized)
             /\ job_args.yielded = <<>>
       /\ job_args.pc \in {"suspended", "exhausted"} =>
             /\ NamesOf(type_list) \subseteq recognized
             /\ YieldedInListOrder

\* C15, amended: the list is rejected exactly when it holds a name that is
\* not in VALID_STATEMENTS, the statement types of the library other than
\* Event, Influence and Unresolved; the error names exactly those names and
\* nothing is yielded; an accepted list yields one tuple per listed type,
\* in list order, the other arguments carried through unchanged.
C15_RejectedIffNotValid ==
    LET type_list == type_list_of(job_args.type_list)
        valid == NamesOf(VALID_STATEMENTS)
    IN /\ job_args.pc = "raised" =>
             /\ job_args.invalid_types = NamesOf(type_list) \ valid
             /\ job_args.invalid_types # {}
             /\ job_args.yielded = <<>>
       /\ job_args.pc \in {"suspended", "exhausted"} =>
             /\ NamesOf(type_list) \subseteq valid
             /\ YieldedInListOrder

\* A list rejected for a statement type of the library and for a name that
\* is none, both named by the error.
C15_Witness ==
    /\ job_args.pc = "raised"
    /\ job_args.invalid_types = {"Influence", "Bogus"}

-----------------------------------------------------------------------------
(* Claims about TasManager._get_statements.                                *)

TasInputs == {tas.statements[i] : i \in 1..Len(tas.statements)}
TasRank(stmt) == IF stmt.class_min = "Kd < 100nM" THEN 0 ELSE 1
TasRanked(stmt) == stmt.class_min \in {"Kd < 100nM", "100nM < Kd < 1uM"}

\* C16: when every statement of the input has one of the two ranked values
\* of class_min, _get_statements returns statements of the input, exactly
\* one for each matches key of the input, and the one returned for a key
\* has the lowest rank among the statements of the input with that key, in
\* whatever order they arrive.
C16_BestRankPerKey ==
    (tas.pc # "idle" /\ \A s \in TasInputs : TasRanked(s)) =>
        /\ tas.pc = "returned"
        /\ tas.returned \subseteq TasInputs
        /\ \A s \in TasInputs :
              \E r \in tas.returned :
                 /\ r.mk = s.mk
                 /\ TasRank(r) <= TasRank(s)
                 /\ \A q \in tas.returned : q.mk = s.mk => q = r

\* A call whose input has, for one key, the better statement first and a
\* worse one after it, and which returned the better one.
C16_Witness ==
    /\ tas.pc = "returned"
    /\ \E i, j \in 1..Len(tas.statements) :
          /\ i < j
          /\ tas.statements[i].mk = tas.statements[j].mk
          /\ TasRank(tas.statements[i]) < TasRank(tas.statements[j])
          /\ tas.statements[i] \in tas.returned

-----------------------------------------------------------------------------
(* Claims about KnowledgebaseManager.check_reference.                      *)

DbInfoRows(name) == {row \in DbInfo : row.db_name = name}

\* C17: while the uploads for a source name are serialized, the db_info
\* table has at most one row for the name and every upload has put its
\* statements under the id of that row; without serialization the select
\* and the insert of two uploads can interleave, and then a name has as
\* many rows as uploads read 'absent' before any of them inserted, at most
\* one per process.
C17_OneRowWhenSerialized ==
    /\ kb.serialized =>
          /\ \A name \in KbNames : Cardinality(DbInfoRows(name)) <= 1
          /\ \A u \in kb.stmts :
                DbInfoRows(u.db_name)
                   = {[id |-> u.db_info_id, db_name |-> u.db_name]}
    /\ \A name \in KbNames :
          Cardinality(DbInfoRows(name)) <= Cardinality(KbProcs)

\* Two first-time uploads of one name that interleaved: both read 'absent',
\* both inserted, and the name has two rows, each used by one upload.
C17_Witness ==
    /\ ~kb.serialized
    /\ \E name \in KbNames :
          /\ Cardinality(DbInfoRows(name)) = 2
          /\ \A row \in DbInfoRows(name) :
                [db_name |-> name, db_info_id |-> row.id] \in kb.stmts

-----------------------------------------------------------------------------
(* Claims about the linked ids and the exact duplicates.                   *)

\* The raw statements when distill_stmts was called: those from readings,
\* the ones among them whose leaf survives the source and version filters,
\* and the groups the filters look for duplicates in: the statements that
\* share a reading and a hash, and the knowledge-base statements that share
\* a hash.
RdgAtCall == {s \in distill.before.statements : s.reading_id # "NULL"}
KbAtCall == {s \in distill.before.statements : s.db_info_id # "NULL"}
SurvivesAtCall(s) ==
    \A t \in RdgAtCall :
        /\ SameTextRef(s, t) => SrcRank(t) <= SrcRank(s)
        /\ (TcOf(s) = TcOf(t) /\ SameReader(s, t)) => RvRank(t) <= RvRank(s)
RdgGroupAtCall(s) ==
    {t.id : t \in {x \in RdgAtCall : /\ x.reading_id = s.reading_id
                                     /\ x.mk_hash = s.mk_hash}}
KbGroupAtCall(s) == {t.id : t \in {x \in KbAtCall : x.mk_hash = s.mk_hash}}
SeveralLinked(group) == Cardinality(group \cap distill.linked_sids) > 1

\* Neither assertion of distill_stmts has failed, and when the filters
\* returned no linked id is among the exact duplicates.
LinkedNeverDuplicate ==
    /\ distill.error # LinkedDuplicates
    /\ distill.pc \in {"deleting", "returned"} =>
          distill.linked_sids \cap distill.duplicate_sids = {}

\* C18 as stated: no linked id is in the exact-duplicate set the filters
\* return, the assertions of distill_stmts never fail, and whenever
\* statements that are exact duplicates of each other hold more than one
\* linked id the filter raises an assertion error.
C18_EveryLinkedGroupAborts ==
    distill.pc # "idle" =>
        /\ LinkedNeverDuplicate
        /\ (\/ \E s \in RdgAtCall : SeveralLinked(RdgGroupAtCall(s))
            \/ \E s \in KbAtCall : SeveralLinked(KbGroupAtCall(s)))
           => (distill.pc = "raised" /\ distill.error = "AssertionError")

\* C18, amended: no linked id is in the exact-duplicate set the filters
\* return, the assertions of distill_stmts never fail, and whenever a group
\* of exact duplicates the filters examine (statements of one reading that
\* survives the source and version filters, or of the knowledge bases)
\* holds more than one linked id, the filter raises an assertion error.
C18_ExaminedLinkedGroupAborts ==
    distill.pc # "idle" =>
        /\ LinkedNeverDuplicate
        /\ (\/ \E s \in RdgAtCall :
                  SurvivesAtCall(s) /\ SeveralLinked(RdgGroupAtCall(s))
            \/ \E s \in KbAtCall : SeveralLinked(KbGroupAtCall(s)))
           => (distill.pc = "raised" /\ distill.error = "AssertionError")

\* A call that met a group of exact duplicates with one linked id, put the
\* other id in the exact-duplicate set and went on to delete it.
C18_Witness ==
    /\ distill.pc = "deleting"
    /\ \E s \in RdgAtCall :
          /\ SurvivesAtCall(s)
          /\ Cardinality(RdgGroupAtCall(s)) > 1
          /\ Cardinality(RdgGroupAtCall(s) \cap distill.linked_sids) = 1
          /\ RdgGroupAtCall(s) \cap distill.duplicate_sids # {}

-----------------------------------------------------------------------------
(* Claims about the order of the deletions.                                *)

DeletedLinks ==
    \A l \in RawUniqueLinks : l.raw_stmt_id \notin del_call.raw_sids
DeletedAgents == \A a \in RawAgents : a.stmt_id \notin del_call.raw_sids

\* C19: delete_raw_statements_by_id with remove='all' deletes the links
\* first, the agents second and the statements last: when the agents are
\* about to be deleted the links of raw_sids are gone, when the statements
\* are about to be deleted the links and the agents are gone, and until
\* then no statement row has been deleted; so in every state of the call
\* every link and every agent refers to a raw statement row that exists.
C19_LinksAgentsStatements ==
    (del_call.pc # "idle" /\ del_call.remove_arg = RemoveAll) =>
        /\ del_call.pc = "agents" => DeletedLinks
        /\ del_call.pc = "statements" => DeletedLinks /\ DeletedAgents
        /\ del_call.pc \in {"links", "agents", "statements"} =>
              RawStatements = del_call.before.statements
        /\ \A l \in RawUniqueLinks :
              \E s \in RawStatements : s.id = l.raw_stmt_id
        /\ \A a \in RawAgents : \E s \in RawStatements : s.id = a.stmt_id

\* The state before the last deletion of a call with remove='all': a
\* statement of raw_sids that had a link and an agent is still there, its
\* link and its agent are not.
C19_Witness ==
    /\ del_call.pc = "statements" /\ del_call.remove_arg = RemoveAll
    /\ \E sid \in del_call.raw_sids :
          /\ \E l \in del_call.before.links : l.raw_stmt_id = sid
          /\ \E a \in del_call.before.agents : a.stmt_id = sid
          /\ \E s \in RawStatements : s.id = sid
          /\ ~\E l \in RawUniqueLinks : l.raw_stmt_id = sid
          /\ ~\E a \in RawAgents : a.stmt_id = sid

-----------------------------------------------------------------------------
(* Claims about what distill_stmts deletes.                                *)

IdsOf(rows) == {s.id : s \in rows}

\* C20: distill_stmts deletes raw statement rows and agents only with
\* handle_duplicates='delete'; when it has returned, the rows gone are
\* exactly those with an id in the exact-duplicate set, with their agents,
\* and every statement returned as kept and every bettered duplicate is
\* still there; with 'ignore' or a file path, and when the call raises,
\* raw_statements and raw_agents are as they were.
C20_DeletesExactlyTheDuplicates ==
    /\ (distill.pc = "returned" /\ distill.handle_duplicates = "delete") =>
          /\ RawStatements =
                {s \in distill.before.statements :
                    s.id \notin distill.duplicate_sids}
          /\ RawAgents =
                {a \in distill.before.agents :
                    a.stmt_id \notin distill.duplicate_sids}
          /\ distill.stmts \cup distill.bettered_duplicate_sids
                \subseteq IdsOf(RawStatements)
    /\ (distill.pc \in {"returned", "raised"}
           /\ distill.handle_duplicates # "delete") =>
          /\ RawStatements = distill.before.statements
          /\ RawAgents = distill.before.agents
    /\ distill.pc = "deleting" =>
          /\ distill.handle_duplicates = "delete"
          /\ IdsOf(distill.before.statements) \ distill.duplicate_sids
                \subseteq IdsOf(RawStatements)

\* A call with handle_duplicates='delete' that returned after deleting an
\* exact duplicate while a kept statement and a bettered duplicate remain.
C20_Witness ==
    /\ distill.pc = "returned" /\ distill.handle_duplicates = "delete"
    /\ distill.duplicate_sids # {}
    /\ distill.duplicate_sids \cap IdsOf(RawStatements) = {}
    /\ distill.duplicate_sids \subseteq IdsOf(distill.before.statements)
    /\ distill.bettered_duplicate_sids # {}
    /\ distill.stmts # {}

-----------------------------------------------------------------------------
(* Claims about the classification of the reading statements.              *)

\* C21: when get_filtered_rdg_stmts (get_full_stmts=False,
\* ignore_duplicates=False) returns, the kept ids, the exact duplicates and
\* the bettered duplicates are pairwise disjoint and together are the ids
\* of all the raw statements that come from a reading: each one is in
\* exactly one of the three sets.
C21_EveryStatementClassifiedOnce ==
    (RdgReturned /\ ~flt.ignore_duplicates) =>
        /\ flt.rdg.stmts \cap flt.rdg.duplicate_sids = {}
        /\ flt.rdg.stmts \cap flt.rdg.bettered_duplicate_sids = {}
        /\ flt.rdg.duplicate_sids \cap flt.rdg.bettered_duplicate_sids = {}
        /\ flt.rdg.stmts \cup flt.rdg.duplicate_sids
              \cup flt.rdg.bettered_duplicate_sids = IdsOf(RdgRows)

\* A call that returned a kept statement, an exact duplicate and a bettered
\* duplicate.
C21_Witness ==
    /\ RdgReturned /\ ~flt.ignore_duplicates
    /\ flt.rdg.stmts # {}
    /\ flt.rdg.duplicate_sids # {}
    /\ flt.rdg.bettered_duplicate_sids # {}
=============================================================================
